---- MODULE Spec2Model ----
(***************************************************************************)
(* Expense-Tracking-Agent: the receipt pipeline, the categorization        *)
(* reconciler, the persisted expense store and the process-wide agent      *)
(* memory, modelled from the Python sources.                               *)
(*                                                                         *)
(* Numbers that are floats in the source (confidences, amounts) are kept   *)
(* as integers in hundredths: 0.95 is 95, $45.67 is 4567.                  *)
(***************************************************************************)
EXTENDS Integers, Sequences, FiniteSets, TLC

VARIABLES
    impl,             \* the orchestrator module the process imported
    pandas_strict,    \* the installed pandas applies the first date's format to the column
    recent_expenses,  \* agent_memory["recent_expenses"]
    budget_data,      \* agent_memory["budget_data"]
    passed,           \* history: every record handed to update_agent_memory, in call order
    store,            \* the JSON array in the data file, as a sequence of records
    corrupt,          \* the data file does not hold valid JSON (a write that failed half way)
    lastOp,           \* the operation performed by the last step and what it returned
    call,             \* inputs of the function call under study (pure-function specifications)
    ret               \* what that call returned, or how it ended

vars == <<impl, pandas_strict, recent_expenses, budget_data, passed, store, corrupt, lastOp, call, ret>>

(***************************************************************************)
(* Bounds of the model.                                                    *)
(***************************************************************************)
MaxUpdates == 55      \* update_agent_memory calls explored by SpecMemory
MaxStore == 3         \* add_expense calls explored by Spec

(***************************************************************************)
(* Small sequence helpers.                                                 *)
(***************************************************************************)
Min(a, b) == IF a <= b THEN a ELSE b
Max(a, b) == IF a >= b THEN a ELSE b
Range(s) == {s[i] : i \in 1..Len(s)}

\* Python's s[-n:] for n > 0
LastN(s, n) == IF Len(s) <= n THEN s ELSE SubSeq(s, Len(s) - n + 1, Len(s))

(***************************************************************************)
(* AgentMemory.                                                            *)
(***************************************************************************)
MemoryLimit == 50

\* AIAgentOrchestrator.__init__: the memory starts empty
EmptyBudget == [set |-> FALSE, months |-> 0]

\* a plausible slip: the window drops the newest records instead of the oldest
update_agent_memory_keep_first(mem, expense_data) ==
    LET appended == Append(mem, expense_data)
    IN  IF Len(appended) > MemoryLimit THEN SubSeq(appended, 1, MemoryLimit) ELSE appended

\* update_agent_memory: append, then keep the last 50
update_agent_memory(mem, expense_data) ==
    LET appended == Append(mem, expense_data)
    IN  IF Len(appended) > MemoryLimit THEN LastN(appended, MemoryLimit) ELSE appended

(***************************************************************************)
(* JSON values as the language model may return them: a number, a string,  *)
(* null, or a key that is absent.                                          *)
(***************************************************************************)
JNum(n) == [t |-> "num", n |-> n, s |-> "", l |-> <<>>]
JStr(s) == [t |-> "str", n |-> 0, s |-> s, l |-> <<>>]
JList(l) == [t |-> "list", n |-> 0, s |-> "", l |-> l]
JNull == [t |-> "null", n |-> 0, s |-> "", l |-> <<>>]
JAbsent == [t |-> "absent", n |-> 0, s |-> "", l |-> <<>>]
\* true / false, and the NaN pandas puts where a row has no value for a column
JBool(b) == [t |-> "bool", n |-> IF b THEN 1 ELSE 0, s |-> "", l |-> <<>>]
JNaN == [t |-> "nan", n |-> 0, s |-> "", l |-> <<>>]

(***************************************************************************)
(* Expense records. id is the identity of the dict object (the dict that   *)
(* add_expense stamps is the one update_agent_memory appended).            *)
(***************************************************************************)
Expense(id, merchant, amount, date, items, category) ==
    [id |-> id, merchant |-> merchant, amount |-> amount, date |-> date, items |-> items,
     category |-> category, confidence |-> JAbsent, ai_tags |-> JAbsent,
     is_recurring |-> JAbsent, timestamp |-> JAbsent]

\* the record handed over by the k-th update_agent_memory call of SpecMemory
MemoryRecord(k) ==
    Expense(k, JStr("Walmart"), JNum(4567), JStr("2024-01-15"), JList(<<"MILK">>),
            JStr("Groceries"))

NoCall == [fn |-> "none"]
NoRet == [kind |-> "none"]
NoOp == [op |-> "none", ok |-> FALSE]

(***************************************************************************)
(* The fixed category set (CategorizationAgent.categories, and the         *)
(* valid_categories list of categorize_expense_with_ai).                   *)
(***************************************************************************)
CategoryList ==
    << "Food & Dining", "Groceries", "Shopping & Retail", "Transportation & Gas",
       "Entertainment & Recreation", "Healthcare & Medical", "Utilities & Bills",
       "Home & Garden", "Education & Learning", "Travel & Vacation",
       "Professional Services", "Subscriptions & Memberships", "Other" >>

Categories == Range(CategoryList)

(***************************************************************************)
(* Python's sorted(..., key=..., reverse=True): stable, descending.        *)
(* Entries are records with a field key.                                   *)
(***************************************************************************)
RECURSIVE InsertDesc(_, _)
InsertDesc(sorted, x) ==
    IF sorted = <<>> THEN <<x>>
    ELSE IF Head(sorted).key >= x.key THEN <<Head(sorted)>> \o InsertDesc(Tail(sorted), x)
    ELSE <<x>> \o sorted

RECURSIVE SortDesc(_)
SortDesc(s) == IF s = <<>> THEN <<>> ELSE InsertDesc(SortDesc(SubSeq(s, 1, Len(s) - 1)), s[Len(s)])

\* Python's s[:n]
FirstN(s, n) == IF Len(s) <= n THEN s ELSE SubSeq(s, 1, n)

(***************************************************************************)
(* Aggregates of generate_budget_with_ai / generate_insights_with_ai over  *)
(* a list of expense dicts (amount in cents, date an ISO string).          *)
(***************************************************************************)
RECURSIVE SumAmounts(_)
SumAmounts(history) ==
    IF history = <<>> THEN 0 ELSE history[1].amount + SumAmounts(Tail(history))

\* keys of a dict built by "d[k] = d.get(k, 0) + v" in insertion order
RECURSIVE KeysInOrder(_, _)
KeysInOrder(history, field) ==
    IF history = <<>> THEN <<>>
    ELSE LET init == KeysInOrder(SubSeq(history, 1, Len(history) - 1), field)
             k == history[Len(history)][field]
         IN  IF k \in Range(init) THEN init ELSE Append(init, k)

TotalFor(history, field, k) ==
    SumAmounts(SelectSeq(history, LAMBDA e : e[field] = k))

\* categories: category -> summed amount
CategoryTotals(history) ==
    [c \in Range(KeysInOrder(history, "category")) |-> TotalFor(history, "category", c)]

\* monthly_spending is keyed by date[:7]; months_count = len(monthly_spending) or 1
MonthsCount(history) ==
    LET months == {SubSeq(history[i].date, 1, 7) : i \in 1..Len(history)}
    IN  IF months = {} THEN 1 ELSE Cardinality(months)

\* top_categories: the five largest category totals, largest first
TopCategories(history) ==
    LET keys == KeysInOrder(history, "category")
        items == [i \in 1..Len(keys) |-> [name |-> keys[i], key |-> TotalFor(history, "category", keys[i])]]
        top == FirstN(SortDesc(items), 5)
    IN  [i \in 1..Len(top) |-> top[i].name]

(***************************************************************************)
(* _fallback_budget_creation: the 50/30/20 budget computed from income and *)
(* the per-category totals, without any language-model call.               *)
(***************************************************************************)
FallbackShare ==
    [c \in {"Food & Dining", "Groceries", "Transportation & Gas", "Utilities & Bills",
            "Shopping & Retail", "Entertainment & Recreation", "Other"} |->
        CASE c = "Food & Dining" -> 15
          [] c = "Groceries" -> 12
          [] c = "Transportation & Gas" -> 15
          [] c = "Utilities & Bills" -> 8
          [] c = "Shopping & Retail" -> 10
          [] c = "Entertainment & Recreation" -> 8
          [] OTHER -> 12]

Percent(amount, pct) == (amount * pct) \div 100

DictGet(d, k, default) == IF k \in DOMAIN d THEN d[k] ELSE default

fallback_budget_creation(income, current_spending) ==
    [kind |-> "budget",
     src |-> "fallback",
     monthly_budget |->
        [c \in DOMAIN FallbackShare |->
            [recommended |-> Percent(income, FallbackShare[c]),
             current |-> DictGet(current_spending, c, 0),
             percentage |-> FallbackShare[c]]],
     total_income |-> income,
     total_allocated |-> Percent(income, 80),
     savings_target |-> Percent(income, 20),
     emergency_fund_target |-> income * 6,
     budget_health_score |-> 75,
     data_months |-> 0]

(***************************************************************************)
(* Outcomes of a language-model call whose answer is parsed as JSON:       *)
(*   exception  the call raised                                            *)
(*   nonjson    json.loads rejects the cleaned text                        *)
(*   nondict    valid JSON that is not an object (a list, a number)        *)
(*   object     a JSON object                                              *)
(***************************************************************************)
LLMOutcomes == {"exception", "nonjson", "nondict", "object"}

\* the body of the try block raises for every outcome but a JSON object:
\* budget_data["created_date"] = ... and parsed.setdefault(...) raise on a non-dict
TryBlockRaises(llm) == llm # "object"

BudgetFromLLM(months_count) ==
    [kind |-> "budget", src |-> "llm", data_months |-> months_count]

NoneValue == [kind |-> "None"]

\* the orchestrator implementations: ai_agent_orchestrator.py (Groq) and
\* agent_orchestrator.py (Gemini, the one app.py imports)
Impls == {"ai_agent_orchestrator", "agent_orchestrator"}

\* generate_budget_with_ai: the returned value
generate_budget_with_ai(orchestrator, income, expense_history, llm) ==
    LET categories == CategoryTotals(expense_history)
        months_count == MonthsCount(expense_history)
    IN  IF ~TryBlockRaises(llm) THEN BudgetFromLLM(months_count)
        ELSE IF orchestrator = "ai_agent_orchestrator" THEN fallback_budget_creation(income, categories)
        ELSE NoneValue   \* agent_orchestrator.py: the except block only prints

\* generate_budget_with_ai: agent_memory["budget_data"] after the call
budget_memory_after(old, expense_history, llm) ==
    IF ~TryBlockRaises(llm) THEN [set |-> TRUE, months |-> MonthsCount(expense_history)] ELSE old

\* generate_insights_with_ai (the same code in both orchestrators)
generate_insights_with_ai(expense_data, llm) ==
    IF expense_data = <<>> THEN
        [kind |-> "insights", src |-> "empty", predicted_total |-> 0, count |-> 0,
         risk_areas |-> <<>>, health_score |-> 50]
    ELSE IF ~TryBlockRaises(llm) THEN
        [kind |-> "insights", src |-> "llm", predicted_total |-> SumAmounts(expense_data),
         count |-> Len(expense_data), risk_areas |-> <<>>, health_score |-> 70]
    ELSE
        [kind |-> "insights", src |-> "fallback", predicted_total |-> SumAmounts(expense_data),
         count |-> Len(expense_data), risk_areas |-> FirstN(TopCategories(expense_data), 2),
         health_score |-> 65]

(***************************************************************************)
(* Strings. TLC treats a string as a sequence of one-character strings     *)
(* under Len, SubSeq and \o.                                               *)
(***************************************************************************)
Ch(s, i) == SubSeq(s, i, i)

DigitChars == "0123456789"

RECURSIVE IndexFrom(_, _, _)
IndexFrom(c, s, i) ==
    IF i > Len(s) THEN 0 ELSE IF Ch(s, i) = c THEN i ELSE IndexFrom(c, s, i + 1)

IsDigit(c) == IndexFrom(c, DigitChars, 1) > 0
DigitValue(c) == IndexFrom(c, DigitChars, 1) - 1

AllDigits(s) == Len(s) > 0 /\ \A i \in 1..Len(s) : IsDigit(Ch(s, i))

RECURSIVE ToNat(_)
ToNat(s) == IF s = "" THEN 0 ELSE 10 * ToNat(SubSeq(s, 1, Len(s) - 1)) + DigitValue(Ch(s, Len(s)))

DigitStr(d) == Ch(DigitChars, d + 1)
Pad2(n) == DigitStr((n \div 10) % 10) \o DigitStr(n % 10)
Pad4(n) == Pad2(n \div 100) \o Pad2(n % 100)

(***************************************************************************)
(* Dates. pd.to_datetime on one string, for the shapes the model feeds it: *)
(* YYYY-MM-DD and MM/DD/YYYY parse, anything else ("Unknown") raises.      *)
(* strftime('%Y-%m-%d') writes the parsed date back in ISO form.           *)
(***************************************************************************)
IsLeap(y) == (y % 4 = 0 /\ y % 100 # 0) \/ y % 400 = 0

DaysIn(y, m) ==
    IF m = 2 THEN (IF IsLeap(y) THEN 29 ELSE 28)
    ELSE IF m \in {4, 6, 9, 11} THEN 30 ELSE 31

ValidDate(y, m, d) == y >= 1 /\ m \in 1..12 /\ d >= 1 /\ d <= DaysIn(y, m)

NoDate == [ok |-> FALSE, y |-> 0, m |-> 0, d |-> 0, form |-> "none"]

DateShape(s) ==
    IF Len(s) = 10 /\ Ch(s, 5) = "-" /\ Ch(s, 8) = "-"
       /\ AllDigits(SubSeq(s, 1, 4)) /\ AllDigits(SubSeq(s, 6, 7)) /\ AllDigits(SubSeq(s, 9, 10))
    THEN "iso"
    ELSE IF Len(s) = 10 /\ Ch(s, 3) = "/" /\ Ch(s, 6) = "/"
            /\ AllDigits(SubSeq(s, 1, 2)) /\ AllDigits(SubSeq(s, 4, 5)) /\ AllDigits(SubSeq(s, 7, 10))
    THEN "us"
    ELSE "none"

to_datetime(s) ==
    LET form == DateShape(s)
        y == IF form = "iso" THEN ToNat(SubSeq(s, 1, 4)) ELSE ToNat(SubSeq(s, 7, 10))
        m == IF form = "iso" THEN ToNat(SubSeq(s, 6, 7)) ELSE ToNat(SubSeq(s, 1, 2))
        d == IF form = "iso" THEN ToNat(SubSeq(s, 9, 10)) ELSE ToNat(SubSeq(s, 4, 5))
    IN  IF form # "none" /\ ValidDate(y, m, d)
        THEN [ok |-> TRUE, y |-> y, m |-> m, d |-> d, form |-> form]
        ELSE NoDate

strftime_iso(dt) == Pad4(dt.y) \o "-" \o Pad2(dt.m) \o "-" \o Pad2(dt.d)

DateKey(dt) == dt.y * 10000 + dt.m * 100 + dt.d

(***************************************************************************)
(* DataManager: the data file holds a JSON array of expense dicts.         *)
(***************************************************************************)
\* the keys a stored dict may have, besides the model's id
Columns ==
    {"merchant", "amount", "date", "items", "category", "confidence", "ai_tags",
     "is_recurring", "timestamp"}

HasColumn(records, col) == \E i \in 1..Len(records) : records[i][col].t # "absent"

\* pd.DataFrame(data) and pd.concat: a column exists when some row has the
\* key, and the rows without it hold NaN there
DataFrame(records) ==
    [i \in 1..Len(records) |->
        [f \in DOMAIN records[i] |->
            IF f \in Columns /\ records[i][f].t = "absent" /\ HasColumn(records, f)
            THEN JNaN ELSE records[i][f]]]

\* None and NaN become NaT
IsNaT(v) == v.t \in {"nan", "null"}

\* the rows whose date is a value to parse
DatedRows(records) == {i \in 1..Len(records) : ~IsNaT(records[i].date)}

\* pd.to_datetime(df['date']) over the whole column. df['date'] raises when no
\* row has the key; every value must parse; a pandas that infers one format
\* from the first value and applies it to the column (strict) also raises when
\* a later value has another shape.
DateColumnRaises(records, strict) ==
    \/ ~HasColumn(records, "date")
    \/ \E i \in DatedRows(records) :
          \/ records[i].date.t # "str"
          \/ ~to_datetime(records[i].date.s).ok
    \/ /\ strict
       /\ \E i, j \in DatedRows(records) :
             /\ \A k \in DatedRows(records) : i <= k
             /\ to_datetime(records[j].date.s).form # to_datetime(records[i].date.s).form

\* df['date'] = pd.to_datetime(df['date']).dt.strftime('%Y-%m-%d')
NormalizeDate(r) ==
    IF IsNaT(r.date) THEN [r EXCEPT !.date = JNaN]
    ELSE [r EXCEPT !.date = JStr(strftime_iso(to_datetime(r.date.s)))]

\* df.sort_values('date', ascending=False); rows with equal dates keep their
\* order and rows without a date come last
SortByDateDesc(records) ==
    LET keyed == [i \in 1..Len(records) |->
                    [key |-> IF IsNaT(records[i].date) THEN 0
                             ELSE DateKey(to_datetime(records[i].date.s)),
                     row |-> records[i]]]
        sorted == SortDesc(keyed)
    IN  [i \in 1..Len(sorted) |-> sorted[i].row]

\* the "if col not in df.columns" defaults: a missing column is created with
\* one value for every row; an existing column is left as it is
FillMissingColumns(records) ==
    LET no_tags == ~HasColumn(records, "ai_tags")
        no_recurring == ~HasColumn(records, "is_recurring")
        no_timestamp == ~HasColumn(records, "timestamp")
    IN  [i \in 1..Len(records) |->
            [records[i] EXCEPT
                !.ai_tags = IF no_tags THEN JList(<<>>) ELSE @,
                !.is_recurring = IF no_recurring THEN JBool(FALSE) ELSE @,
                !.timestamp = IF no_timestamp THEN JStr("now") ELSE @]]

\* load_expenses: the rows of the returned DataFrame. Every exception (invalid
\* JSON, no date column, a date that does not parse) ends in the except
\* block, which returns an empty frame.
load_expenses(file, invalid_json, strict) ==
    IF invalid_json THEN <<>>
    ELSE IF file = <<>> THEN <<>>
    ELSE LET df == DataFrame(file)
         IN  IF DateColumnRaises(df, strict) THEN <<>>
             ELSE SortByDateDesc(
                      FillMissingColumns([i \in 1..Len(df) |-> NormalizeDate(df[i])]))

\* outcomes of save_expenses: the write succeeds, open() fails and leaves the
\* file alone, or the write fails after open(..., 'w') truncated the file
SaveOutcomes == {"ok", "open_fail", "write_fail"}

\* add_expense stamps the dict before it is put in the frame
Stamp(expense_data) == [expense_data EXCEPT !.timestamp = JStr("now")]

\* add_expense: the frame handed to save_expenses (to_dict('records') gives
\* every row every column of the frame)
add_expense_frame(file, invalid_json, strict, expense_data) ==
    LET expenses_df == load_expenses(file, invalid_json, strict)
    IN  IF expenses_df = <<>> THEN <<Stamp(expense_data)>>
        ELSE DataFrame(Append(expenses_df, Stamp(expense_data)))

(***************************************************************************)
(* str.lower() and the substring test "keyword in text".                   *)
(***************************************************************************)
UpperChars == "ABCDEFGHIJKLMNOPQRSTUVWXYZ"
LowerChars == "abcdefghijklmnopqrstuvwxyz"

LowerChar(c) ==
    LET i == IndexFrom(c, UpperChars, 1) IN IF i > 0 THEN Ch(LowerChars, i) ELSE c

RECURSIVE Lower(_)
Lower(s) == IF s = "" THEN "" ELSE Lower(SubSeq(s, 1, Len(s) - 1)) \o LowerChar(Ch(s, Len(s)))

Contains(sub, s) ==
    \E i \in 1..(Len(s) - Len(sub) + 1) : SubSeq(s, i, i + Len(sub) - 1) = sub

AnyIn(words, s) == \E i \in 1..Len(words) : Contains(words[i], s)

\* sep.join(list)
RECURSIVE Join(_, _)
Join(sep, l) ==
    IF l = <<>> THEN ""
    ELSE IF Len(l) = 1 THEN l[1]
    ELSE l[1] \o sep \o Join(sep, Tail(l))

(***************************************************************************)
(* CategorizationAgent (agents/categorization_agent.py).                   *)
(* Confidences are in hundredths.                                          *)
(***************************************************************************)
\* category_keywords, in the order of the dict
KeywordCategories ==
    << "Food & Dining", "Groceries", "Shopping & Retail", "Transportation & Gas",
       "Entertainment & Recreation", "Healthcare & Medical", "Utilities & Bills",
       "Home & Garden", "Education & Learning", "Travel & Vacation",
       "Professional Services", "Subscriptions & Memberships" >>

category_keywords(c) ==
    CASE c = "Food & Dining" ->
            << "restaurant", "cafe", "starbucks", "mcdonalds", "pizza", "burger", "kfc",
               "subway", "taco bell", "chipotle", "dining", "bar", "pub", "bistro" >>
      [] c = "Groceries" ->
            << "grocery", "supermarket", "walmart", "target", "kroger", "safeway",
               "whole foods", "trader joe", "costco", "sams club", "food store" >>
      [] c = "Shopping & Retail" ->
            << "amazon", "ebay", "store", "mall", "clothing", "fashion", "shoes",
               "electronics", "best buy", "apple store", "retail", "boutique" >>
      [] c = "Transportation & Gas" ->
            << "gas", "fuel", "shell", "exxon", "bp", "chevron", "mobil", "uber",
               "lyft", "taxi", "parking", "metro", "bus", "train", "car wash" >>
      [] c = "Entertainment & Recreation" ->
            << "movie", "theater", "cinema", "netflix", "spotify", "game", "concert",
               "sports", "gym", "fitness", "recreation", "park", "museum" >>
      [] c = "Healthcare & Medical" ->
            << "pharmacy", "cvs", "walgreens", "hospital", "doctor", "medical",
               "health", "clinic", "dental", "vision", "insurance", "medication" >>
      [] c = "Utilities & Bills" ->
            << "electric", "electricity", "water", "internet", "phone", "cable",
               "utility", "bill", "service", "telecom", "energy", "heating" >>
      [] c = "Home & Garden" ->
            << "home depot", "lowes", "hardware", "garden", "furniture", "decor",
               "improvement", "repair", "maintenance", "cleaning", "household" >>
      [] c = "Education & Learning" ->
            << "school", "university", "education", "books", "tuition", "course",
               "training", "workshop", "seminar", "learning", "academic" >>
      [] c = "Travel & Vacation" ->
            << "hotel", "airbnb", "airline", "flight", "airport", "travel", "vacation",
               "rental", "tourism", "booking", "expedia", "trip" >>
      [] c = "Professional Services" ->
            << "lawyer", "accountant", "consultant", "service", "professional",
               "business", "office", "meeting", "conference", "networking" >>
      [] c = "Subscriptions & Memberships" ->
            << "subscription", "membership", "monthly", "annual", "premium", "pro",
               "plus", "streaming", "software", "app", "service plan" >>

\* a variant that weighs a merchant hit like an item hit
RECURSIVE KeywordScoreEqualWeights(_, _, _)
KeywordScoreEqualWeights(keywords, merchant_lower, items_text) ==
    IF keywords = <<>> THEN 0
    ELSE (IF Contains(keywords[1], merchant_lower) THEN 1 ELSE 0)
         + (IF Contains(keywords[1], items_text) THEN 1 ELSE 0)
         + KeywordScoreEqualWeights(Tail(keywords), merchant_lower, items_text)

\* the score of one category: 3 per keyword found in the merchant, 1 per
\* keyword found in the items text
RECURSIVE KeywordScore(_, _, _)
KeywordScore(keywords, merchant_lower, items_text) ==
    IF keywords = <<>> THEN 0
    ELSE (IF Contains(keywords[1], merchant_lower) THEN 3 ELSE 0)
         + (IF Contains(keywords[1], items_text) THEN 1 ELSE 0)
         + KeywordScore(Tail(keywords), merchant_lower, items_text)

\* the scores of all categories, in dict order
CategoryScores(merchant, items) ==
    LET merchant_lower == Lower(merchant)
        items_text == Lower(Join(" ", items))
    IN  [i \in 1..Len(KeywordCategories) |->
            KeywordScore(category_keywords(KeywordCategories[i]), merchant_lower, items_text)]

NoCategory == "<None>"

\* _rule_based_categorization: max(category_scores, key=category_scores.get)
\* is the first category, in dict order, with the highest score; None when
\* no category scored
rule_based_categorization(merchant, items) ==
    LET scores == CategoryScores(merchant, items)
        best == CHOOSE i \in 1..Len(scores) :
                    /\ \A j \in 1..Len(scores) : scores[j] <= scores[i]
                    /\ \A j \in 1..(i - 1) : scores[j] < scores[i]
    IN  IF \A i \in 1..Len(scores) : scores[i] = 0 THEN NoCategory
        ELSE KeywordCategories[best]

\* what the language model answered to a categorization prompt
AIAnswer(outcome, category, confidence) ==
    [outcome |-> outcome, category |-> category, confidence |-> confidence]

NoAI == [ok |-> FALSE, category |-> NoCategory, confidence |-> JNull]

\* _ai_categorization: None on any exception in the try block; otherwise the
\* category (coerced to "Other" when not in the list) and
\* parsed.get("confidence", 0.7), whatever its type
ai_categorization(answer) ==
    IF answer.outcome # "object" THEN NoAI
    ELSE LET category == IF answer.category.t = "absent" THEN "Other"
                         ELSE IF answer.category.t = "str" /\ answer.category.s \in Categories
                              THEN answer.category.s
                         ELSE "Other"
             confidence == IF answer.confidence.t = "absent" THEN JNum(70) ELSE answer.confidence
         IN  [ok |-> TRUE, category |-> category, confidence |-> confidence]

\* _fallback_categorization: the last-resort merchant heuristic
fallback_categorization(merchant) ==
    LET merchant_lower == Lower(merchant)
    IN  IF AnyIn(<<"food", "restaurant", "cafe">>, merchant_lower) THEN "Food & Dining"
        ELSE IF AnyIn(<<"store", "shop", "mart">>, merchant_lower) THEN "Shopping & Retail"
        ELSE IF AnyIn(<<"gas", "fuel", "oil">>, merchant_lower) THEN "Transportation & Gas"
        ELSE "Other"

CatResult(category, confidence, branch) ==
    [kind |-> "result", category |-> category, confidence |-> confidence, branch |-> branch]

CatRaised(branch) ==
    [kind |-> "raised", category |-> NoCategory, confidence |-> JNull, branch |-> branch]

\* variants of _combine_categorization_results with one branch altered
combine_agree_uncapped(rule_based, ai_result, merchant) ==
    IF rule_based # NoCategory /\ ai_result.ok THEN
        IF ai_result.confidence.t # "num" THEN
            CatRaised(IF rule_based = ai_result.category THEN "agree" ELSE "disagree")
        ELSE IF rule_based = ai_result.category THEN
            CatResult(rule_based, JNum(Min(100, ai_result.confidence.n + 10)), "agree")
        ELSE
            CatResult(ai_result.category, JNum(Max(70, ai_result.confidence.n - 10)), "disagree")
    ELSE IF ai_result.ok THEN CatResult(ai_result.category, ai_result.confidence, "ai_only")
    ELSE IF rule_based # NoCategory THEN CatResult(rule_based, JNum(75), "rule_only")
    ELSE CatResult(fallback_categorization(merchant), JNum(50), "fallback")

combine_disagree_keeps_rule(rule_based, ai_result, merchant) ==
    IF rule_based # NoCategory /\ ai_result.ok THEN
        IF ai_result.confidence.t # "num" THEN
            CatRaised(IF rule_based = ai_result.category THEN "agree" ELSE "disagree")
        ELSE IF rule_based = ai_result.category THEN
            CatResult(rule_based, JNum(Min(95, ai_result.confidence.n + 10)), "agree")
        ELSE
            CatResult(rule_based, JNum(Max(70, ai_result.confidence.n - 10)), "disagree")
    ELSE IF ai_result.ok THEN CatResult(ai_result.category, ai_result.confidence, "ai_only")
    ELSE IF rule_based # NoCategory THEN CatResult(rule_based, JNum(75), "rule_only")
    ELSE CatResult(fallback_categorization(merchant), JNum(50), "fallback")

combine_rule_only_as_fallback(rule_based, ai_result, merchant) ==
    IF rule_based # NoCategory /\ ai_result.ok THEN
        IF ai_result.confidence.t # "num" THEN
            CatRaised(IF rule_based = ai_result.category THEN "agree" ELSE "disagree")
        ELSE IF rule_based = ai_result.category THEN
            CatResult(rule_based, JNum(Min(95, ai_result.confidence.n + 10)), "agree")
        ELSE
            CatResult(ai_result.category, JNum(Max(70, ai_result.confidence.n - 10)), "disagree")
    ELSE IF ai_result.ok THEN CatResult(ai_result.category, ai_result.confidence, "ai_only")
    ELSE IF rule_based # NoCategory THEN CatResult(rule_based, JNum(50), "rule_only")
    ELSE CatResult(fallback_categorization(merchant), JNum(50), "fallback")

combine_fallback_other(rule_based, ai_result, merchant) ==
    IF rule_based # NoCategory /\ ai_result.ok THEN
        IF ai_result.confidence.t # "num" THEN
            CatRaised(IF rule_based = ai_result.category THEN "agree" ELSE "disagree")
        ELSE IF rule_based = ai_result.category THEN
            CatResult(rule_based, JNum(Min(95, ai_result.confidence.n + 10)), "agree")
        ELSE
            CatResult(ai_result.category, JNum(Max(70, ai_result.confidence.n - 10)), "disagree")
    ELSE IF ai_result.ok THEN CatResult(ai_result.category, ai_result.confidence, "ai_only")
    ELSE IF rule_based # NoCategory THEN CatResult(rule_based, JNum(75), "rule_only")
    ELSE CatResult("Other", JNum(50), "fallback")

\* _combine_categorization_results; "+ 0.1" and "- 0.1" raise TypeError when
\* the confidence is not a number
combine_categorization_results(rule_based, ai_result, merchant) ==
    IF rule_based # NoCategory /\ ai_result.ok THEN
        IF ai_result.confidence.t # "num" THEN
            CatRaised(IF rule_based = ai_result.category THEN "agree" ELSE "disagree")
        ELSE IF rule_based = ai_result.category THEN
            CatResult(rule_based, JNum(Min(95, ai_result.confidence.n + 10)), "agree")
        ELSE
            CatResult(ai_result.category, JNum(Max(70, ai_result.confidence.n - 10)), "disagree")
    ELSE IF ai_result.ok THEN CatResult(ai_result.category, ai_result.confidence, "ai_only")
    ELSE IF rule_based # NoCategory THEN CatResult(rule_based, JNum(75), "rule_only")
    ELSE CatResult(fallback_categorization(merchant), JNum(50), "fallback")

\* categorize_expense
categorize_expense(merchant, items, answer) ==
    combine_categorization_results(rule_based_categorization(merchant, items),
                                   ai_categorization(answer), merchant)

(***************************************************************************)
(* ai_agent_orchestrator.categorize_expense_with_ai                        *)
(***************************************************************************)
\* _fallback_categorize
fallback_categorize(merchant) ==
    LET merchant_lower == Lower(merchant)
    IN  IF AnyIn(<<"grocery", "market", "food", "walmart", "target">>, merchant_lower)
        THEN "Groceries"
        ELSE IF AnyIn(<<"restaurant", "cafe", "pizza", "burger", "starbucks">>, merchant_lower)
        THEN "Food & Dining"
        ELSE IF AnyIn(<<"gas", "fuel", "shell", "exxon", "chevron">>, merchant_lower)
        THEN "Transportation & Gas"
        ELSE IF AnyIn(<<"pharmacy", "cvs", "walgreens", "medical">>, merchant_lower)
        THEN "Healthcare & Medical"
        ELSE "Other"

\* the try block returns the parsed dict with its category validated and
\* setdefault("confidence", 0.8); every exception ends in the fallback dict
categorize_expense_with_ai(merchant, answer) ==
    IF answer.outcome # "object" THEN CatResult(fallback_categorize(merchant), JNum(60), "except")
    ELSE LET category == IF answer.category.t = "str" /\ answer.category.s \in Categories
                         THEN answer.category.s
                         ELSE fallback_categorize(merchant)
             confidence == IF answer.confidence.t = "absent" THEN JNum(80) ELSE answer.confidence
         IN  CatResult(category, confidence, "ai")

(***************************************************************************)
(* Regular-expression pieces over a text. Positions are 1-based; a match   *)
(* is [ok, end, ...] with end the position after the match.                *)
(***************************************************************************)
IsSpace(c) == c \in {" ", "\n", "\t", "\r"}
IsUpper(c) == IndexFrom(c, UpperChars, 1) > 0
IsLower(c) == IndexFrom(c, LowerChars, 1) > 0
IsAlpha(c) == IsUpper(c) \/ IsLower(c)
IsWordChar(c) == IsAlpha(c) \/ IsDigit(c) \/ c = "_"

\* the position after the longest run of whitespace starting at i (\s*)
RECURSIVE SkipSpaces(_, _)
SkipSpaces(text, i) ==
    IF i <= Len(text) /\ IsSpace(Ch(text, i)) THEN SkipSpaces(text, i + 1) ELSE i

\* the position after the longest run of digits starting at i (\d+, \d*)
RECURSIVE SkipDigits(_, _)
SkipDigits(text, i) ==
    IF i <= Len(text) /\ IsDigit(Ch(text, i)) THEN SkipDigits(text, i + 1) ELSE i

RECURSIVE SkipWordChars(_, _)
SkipWordChars(text, i) ==
    IF i <= Len(text) /\ IsWordChar(Ch(text, i)) THEN SkipWordChars(text, i + 1) ELSE i

RECURSIVE SkipColonsSpaces(_, _)
SkipColonsSpaces(text, i) ==
    IF i <= Len(text) /\ (IsSpace(Ch(text, i)) \/ Ch(text, i) = ":")
    THEN SkipColonsSpaces(text, i + 1) ELSE i

NoMatch == [ok |-> FALSE, end |-> 0, cents |-> 0, group |-> ""]

\* (\d+\.\d{2}) at i, or with cents optional (\d+(?:\.\d{2})?); float(group) in cents
MatchDecimal(text, i, cents_optional) ==
    LET j == SkipDigits(text, i)
        has_cents == /\ j + 2 <= Len(text)
                     /\ Ch(text, j) = "."
                     /\ IsDigit(Ch(text, j + 1))
                     /\ IsDigit(Ch(text, j + 2))
    IN  IF j = i THEN NoMatch
        ELSE IF has_cents THEN
            [ok |-> TRUE, end |-> j + 3, group |-> SubSeq(text, i, j + 2),
             cents |-> 100 * ToNat(SubSeq(text, i, j - 1)) + ToNat(SubSeq(text, j + 1, j + 2))]
        ELSE IF cents_optional THEN
            [ok |-> TRUE, end |-> j, group |-> SubSeq(text, i, j - 1),
             cents |-> 100 * ToNat(SubSeq(text, i, j - 1))]
        ELSE NoMatch

\* \$\s*(\d+\.\d{2})  and  \$\s*(\d+(?:\.\d{2})?)
MatchDollar(text, i, cents_optional) ==
    IF i <= Len(text) /\ Ch(text, i) = "$"
    THEN MatchDecimal(text, SkipSpaces(text, i + 1), cents_optional)
    ELSE NoMatch

\* word[:\s]*\$?\s*(\d+\.\d{2}) with re.IGNORECASE, word being total or amount
MatchLabelled(text, i, word) ==
    IF i + Len(word) - 1 <= Len(text) /\ Lower(SubSeq(text, i, i + Len(word) - 1)) = word
    THEN LET j == SkipColonsSpaces(text, i + Len(word))
             k == IF j <= Len(text) /\ Ch(text, j) = "$" THEN j + 1 ELSE j
         IN  MatchDecimal(text, SkipSpaces(text, k), FALSE)
    ELSE NoMatch

\* re.findall: leftmost matches, scanning on from the end of each match
RECURSIVE FindDollars(_, _, _)
FindDollars(text, i, cents_optional) ==
    IF i > Len(text) THEN <<>>
    ELSE LET m == MatchDollar(text, i, cents_optional)
         IN  IF m.ok THEN <<m.cents>> \o FindDollars(text, m.end, cents_optional)
             ELSE FindDollars(text, i + 1, cents_optional)

RECURSIVE FindLabelled(_, _, _)
FindLabelled(text, i, word) ==
    IF i > Len(text) THEN <<>>
    ELSE LET m == MatchLabelled(text, i, word)
         IN  IF m.ok THEN <<m.cents>> \o FindLabelled(text, m.end, word)
             ELSE FindLabelled(text, i + 1, word)

RECURSIVE SeqMax(_)
SeqMax(s) == IF Len(s) = 1 THEN s[1] ELSE Max(s[1], SeqMax(Tail(s)))

\* str.split(sep) for a one-character separator
RECURSIVE SplitFrom(_, _, _, _)
SplitFrom(s, sep, i, start) ==
    IF i > Len(s) THEN <<SubSeq(s, start, Len(s))>>
    ELSE IF Ch(s, i) = sep THEN <<SubSeq(s, start, i - 1)>> \o SplitFrom(s, sep, i + 1, i + 1)
    ELSE SplitFrom(s, sep, i + 1, start)

Split(s, sep) == SplitFrom(s, sep, 1, 1)

\* str.strip()
RECURSIVE LStrip(_)
LStrip(s) == IF s # "" /\ IsSpace(Ch(s, 1)) THEN LStrip(SubSeq(s, 2, Len(s))) ELSE s

RECURSIVE RStrip(_)
RStrip(s) == IF s # "" /\ IsSpace(Ch(s, Len(s))) THEN RStrip(SubSeq(s, 1, Len(s) - 1)) ELSE s

Strip(s) == LStrip(RStrip(s))

\* re.sub(r'[^a-zA-Z0-9\s]', ' ', line)
RECURSIVE CleanLine(_)
CleanLine(s) ==
    IF s = "" THEN ""
    ELSE LET c == Ch(s, Len(s))
         IN  CleanLine(SubSeq(s, 1, Len(s) - 1))
             \o (IF IsAlpha(c) \/ IsDigit(c) \/ IsSpace(c) THEN c ELSE " ")

UpperChar(c) ==
    LET i == IndexFrom(c, LowerChars, 1) IN IF i > 0 THEN Ch(UpperChars, i) ELSE c

\* str.title(): a letter is upper-cased after a non-letter, lower-cased after a letter
RECURSIVE Title(_)
Title(s) ==
    IF s = "" THEN ""
    ELSE LET n == Len(s)
             c == Ch(s, n)
             after_letter == n > 1 /\ IsAlpha(Ch(s, n - 1))
         IN  Title(SubSeq(s, 1, n - 1)) \o (IF after_letter THEN LowerChar(c) ELSE UpperChar(c))

RECURSIVE SkipNonSpaces(_, _)
SkipNonSpaces(s, i) ==
    IF i <= Len(s) /\ ~IsSpace(Ch(s, i)) THEN SkipNonSpaces(s, i + 1) ELSE i

\* len(s.split()): the number of whitespace-separated words
RECURSIVE WordCount(_, _)
WordCount(s, i) ==
    IF i > Len(s) THEN 0
    ELSE IF IsSpace(Ch(s, i)) THEN WordCount(s, i + 1)
    ELSE 1 + WordCount(s, SkipNonSpaces(s, i))

(***************************************************************************)
(* What a pipeline entry point hands back: a record, None, or an exception.*)
(***************************************************************************)
NoRecord == Expense(0, JAbsent, JAbsent, JAbsent, JAbsent, JAbsent)

Raised == [kind |-> "raised", rec |-> NoRecord]
Returned(rec) == [kind |-> "record", rec |-> rec]
ReturnedNone == [kind |-> "None", rec |-> NoRecord]

(***************************************************************************)
(* OCRProcessor (ocr_processor.py): the regex field extractors.            *)
(* Amounts are in hundredths.                                              *)
(***************************************************************************)
\* datetime.now().strftime('%Y-%m-%d') during the run
Today == "2024-03-01"

NoneAmount == [none |-> TRUE, cents |-> 0]

\* a variant that answers the first match instead of the largest
extract_amount_first_match(text) ==
    LET amounts == FindDollars(text, 1, FALSE) \o FindLabelled(text, 1, "total")
                   \o FindLabelled(text, 1, "amount") \o FindDollars(text, 1, TRUE)
    IN  IF amounts # <<>> THEN [none |-> FALSE, cents |-> amounts[1]] ELSE NoneAmount

\* extract_amount: the largest of all pattern matches, None when there is none
extract_amount(text) ==
    LET amounts == FindDollars(text, 1, FALSE) \o FindLabelled(text, 1, "total")
                   \o FindLabelled(text, 1, "amount") \o FindDollars(text, 1, TRUE)
    IN  IF amounts # <<>> THEN [none |-> FALSE, cents |-> SeqMax(amounts)] ELSE NoneAmount

DigitRun(text, i) == SkipDigits(text, i) - i

IsDateSep(text, i) == i <= Len(text) /\ Ch(text, i) \in {"/", "-"}

NoDateMatch == [ok |-> FALSE, end |-> 0, parts |-> <<>>, seps |-> <<>>]

\* (\d{1,2}[/-]\d{1,2}[/-]\d{2,4}) at i
MatchDateMDY(text, i) ==
    LET r1 == DigitRun(text, i)
        j  == i + r1 + 1
        r2 == DigitRun(text, j)
        k  == j + r2 + 1
        r3 == Min(DigitRun(text, k), 4)
    IN  IF /\ r1 \in {1, 2} /\ IsDateSep(text, i + r1)
           /\ r2 \in {1, 2} /\ IsDateSep(text, j + r2)
           /\ r3 >= 2
        THEN [ok |-> TRUE, end |-> k + r3,
              parts |-> <<SubSeq(text, i, i + r1 - 1), SubSeq(text, j, j + r2 - 1),
                          SubSeq(text, k, k + r3 - 1)>>,
              seps |-> <<Ch(text, i + r1), Ch(text, j + r2)>>]
        ELSE NoDateMatch

\* (\d{4}[/-]\d{1,2}[/-]\d{1,2}) at i
MatchDateYMD(text, i) ==
    LET r1 == DigitRun(text, i)
        j  == i + 5
        r2 == DigitRun(text, j)
        k  == j + r2 + 1
        r3 == Min(DigitRun(text, k), 2)
    IN  IF /\ r1 = 4 /\ IsDateSep(text, i + 4)
           /\ r2 \in {1, 2} /\ IsDateSep(text, j + r2)
           /\ r3 >= 1
        THEN [ok |-> TRUE, end |-> k + r3,
              parts |-> <<SubSeq(text, i, i + 3), SubSeq(text, j, j + r2 - 1),
                          SubSeq(text, k, k + r3 - 1)>>,
              seps |-> <<Ch(text, i + 4), Ch(text, j + r2)>>]
        ELSE NoDateMatch

\* (\w{3,9}\s+\d{1,2},?\s+\d{4}) at i
MatchDateMonthName(text, i) ==
    LET w  == SkipWordChars(text, i) - i
        j  == SkipSpaces(text, i + w)
        r2 == DigitRun(text, j)
        k  == j + r2
        k2 == IF k <= Len(text) /\ Ch(text, k) = "," THEN k + 1 ELSE k
        l  == SkipSpaces(text, k2)
    IN  IF /\ w \in 3..9 /\ j > i + w
           /\ r2 \in {1, 2}
           /\ l > k2
           /\ DigitRun(text, l) >= 4
        THEN [ok |-> TRUE, end |-> l + 4,
              parts |-> <<SubSeq(text, i, i + w - 1), SubSeq(text, j, k - 1),
                          SubSeq(text, l, l + 3)>>,
              seps |-> <<" ", " ">>]
        ELSE NoDateMatch

DatePatterns == <<"mdy", "ymd", "month_name">>

MatchDate(pattern, text, i) ==
    CASE pattern = "mdy" -> MatchDateMDY(text, i)
      [] pattern = "ymd" -> MatchDateYMD(text, i)
      [] OTHER -> MatchDateMonthName(text, i)

\* re.findall for one date pattern
RECURSIVE FindDates(_, _, _)
FindDates(pattern, text, i) ==
    IF i > Len(text) THEN <<>>
    ELSE LET m == MatchDate(pattern, text, i)
         IN  IF m.ok THEN <<m>> \o FindDates(pattern, text, m.end)
             ELSE FindDates(pattern, text, i + 1)

MonthNames ==
    <<"january", "february", "march", "april", "may", "june", "july", "august",
      "september", "october", "november", "december">>

\* %B and %b: a full or a three-letter month name, in any case; 0 when neither
MonthOf(word) ==
    LET w == Lower(word)
        hits == {n \in 1..12 : w = MonthNames[n] \/ w = SubSeq(MonthNames[n], 1, 3)}
    IN  IF hits = {} THEN 0 ELSE CHOOSE n \in hits : TRUE

\* %m and %d take one or two digits, %Y four, %y two (00-68 is 20xx, 69-99 is 19xx)
FieldMonth(s) == IF Len(s) \in {1, 2} /\ ToNat(s) \in 1..12 THEN ToNat(s) ELSE 0
FieldDay(s) == IF Len(s) \in {1, 2} /\ ToNat(s) \in 1..31 THEN ToNat(s) ELSE 0
FieldYear(s) ==
    IF Len(s) = 4 THEN ToNat(s)
    ELSE IF Len(s) = 2 THEN (IF ToNat(s) <= 68 THEN 2000 + ToNat(s) ELSE 1900 + ToNat(s))
    ELSE 0

MakeDate(y, m, d) ==
    IF ValidDate(y, m, d) THEN [ok |-> TRUE, y |-> y, m |-> m, d |-> d, form |-> "strptime"]
    ELSE NoDate

\* datetime.strptime(match, fmt) tried over the ten formats of extract_date;
\* at most one format fits the shape of a match
strptime_any(pattern, m) ==
    CASE pattern = "mdy" ->
            IF m.seps[1] = m.seps[2] /\ Len(m.parts[3]) \in {2, 4}
            THEN MakeDate(FieldYear(m.parts[3]), FieldMonth(m.parts[1]), FieldDay(m.parts[2]))
            ELSE NoDate
      [] pattern = "ymd" ->
            IF m.seps[1] = m.seps[2]
            THEN MakeDate(FieldYear(m.parts[1]), FieldMonth(m.parts[2]), FieldDay(m.parts[3]))
            ELSE NoDate
      [] OTHER ->
            MakeDate(FieldYear(m.parts[3]), MonthOf(m.parts[1]), FieldDay(m.parts[2]))

RECURSIVE FirstParsed(_, _)
FirstParsed(pattern, matches) ==
    IF matches = <<>> THEN NoDate
    ELSE LET dt == strptime_any(pattern, Head(matches))
         IN  IF dt.ok THEN dt ELSE FirstParsed(pattern, Tail(matches))

\* extract_date: the first match of the first pattern that parses, else today
RECURSIVE ExtractDateFrom(_, _)
ExtractDateFrom(text, p) ==
    IF p > Len(DatePatterns) THEN Today
    ELSE LET dt == FirstParsed(DatePatterns[p], FindDates(DatePatterns[p], text, 1))
         IN  IF dt.ok THEN strftime_iso(dt) ELSE ExtractDateFrom(text, p + 1)

extract_date(text) == ExtractDateFrom(text, 1)

MerchantPatterns ==
    << <<"walmart", "target", "costco", "amazon", "starbucks", "mcdonalds", "subway">>,
       <<"home depot", "lowes", "best buy", "cvs", "walgreens">>,
       <<"shell", "exxon", "bp", "chevron", "mobil">> >>

\* the alternative of (a|b|...) that matches at i, case-insensitively; "" when none
BrandAt(text, i, brands) ==
    LET hits == {b \in 1..Len(brands) :
                    /\ i + Len(brands[b]) - 1 <= Len(text)
                    /\ Lower(SubSeq(text, i, i + Len(brands[b]) - 1)) = brands[b]}
        first == CHOOSE b \in hits : \A o \in hits : b <= o
    IN  IF hits = {} THEN "" ELSE SubSeq(text, i, i + Len(brands[first]) - 1)

\* re.findall(pattern, text)[0], "" when there is no match
RECURSIVE FirstBrand(_, _, _)
FirstBrand(text, i, brands) ==
    IF i > Len(text) THEN ""
    ELSE IF BrandAt(text, i, brands) # "" THEN BrandAt(text, i, brands)
    ELSE FirstBrand(text, i + 1, brands)

\* the line test shared by extract_merchant and _fallback_receipt_processing
IsCandidateLine(line) == Len(line) > 3 /\ ~AllDigits(line)

RECURSIVE FirstLineMerchant(_)
FirstLineMerchant(lines) ==
    IF lines = <<>> THEN "Unknown Merchant"
    ELSE LET line == Strip(Head(lines))
             cleaned == Strip(CleanLine(line))
         IN  IF IsCandidateLine(line) /\ WordCount(cleaned, 1) <= 4 /\ Len(cleaned) > 3
             THEN Title(cleaned)
             ELSE FirstLineMerchant(Tail(lines))

RECURSIVE MerchantFrom(_, _)
MerchantFrom(text, p) ==
    IF p > Len(MerchantPatterns) THEN FirstLineMerchant(FirstN(Split(text, "\n"), 5))
    ELSE IF FirstBrand(text, 1, MerchantPatterns[p]) # ""
         THEN Title(FirstBrand(text, 1, MerchantPatterns[p]))
         ELSE MerchantFrom(text, p + 1)

\* extract_merchant: a known brand, else the first short line of the top five
extract_merchant(text) == MerchantFrom(text, 1)

RECURSIVE ItemLines(_)
ItemLines(lines) ==
    IF lines = <<>> THEN <<>>
    ELSE LET line == Strip(Head(lines))
         IN  (IF Len(line) > 3 /\ \E i \in 1..Len(line) : IsAlpha(Ch(line, i))
              THEN <<line>> ELSE <<>>) \o ItemLines(Tail(lines))

\* extract_items: the first ten lines longer than three characters that hold a letter
extract_items(text) == FirstN(ItemLines(Split(text, "\n")), 10)

\* a variant that keeps the None of extract_amount in the record
AmountKeptNone(amount) == IF amount.none THEN JNull ELSE JNum(amount.cents)

\* extract_receipt_data, given what extract_text returned (the stripped OCR
\* text, "" when OCR raised)
\* amount or 0.0
AmountOrZero(amount) == IF amount.none THEN JNum(0) ELSE JNum(amount.cents)

extract_receipt_data(text) ==
    IF text = "" THEN ReturnedNone
    ELSE Returned(Expense(0, JStr(extract_merchant(text)), AmountOrZero(extract_amount(text)),
                          JStr(extract_date(text)), JList(extract_items(text)), JAbsent))

(***************************************************************************)
(* ai_agent_orchestrator.process_receipt_with_ai and its fallback.         *)
(***************************************************************************)
\* the merchant loop of _fallback_receipt_processing: every candidate line
\* overwrites the merchant, the loop stops at the first one of 30 characters or fewer
RECURSIVE FallbackMerchant(_, _)
FallbackMerchant(lines, merchant) ==
    IF lines = <<>> THEN merchant
    ELSE LET line == Strip(Head(lines))
             candidate == Title(Strip(CleanLine(line)))
         IN  IF ~IsCandidateLine(line) THEN FallbackMerchant(Tail(lines), merchant)
             ELSE IF Len(candidate) <= 30 THEN candidate
             ELSE FallbackMerchant(Tail(lines), candidate)

fallback_receipt_processing(ocr_text) ==
    LET amount_matches == FindDollars(ocr_text, 1, FALSE)
        amount == IF amount_matches # <<>> THEN SeqMax(amount_matches) ELSE 0
        merchant == FallbackMerchant(FirstN(Split(ocr_text, "\n"), 5), "Unknown Merchant")
    IN  Returned(Expense(0, JStr(merchant), JNum(amount), JStr(Today), JList(<<>>), JStr("Other")))

\* Python truth value of a JSON value
Truthy(v) ==
    CASE v.t = "num" -> v.n # 0
      [] v.t = "str" -> v.s # ""
      [] v.t = "list" -> v.l # <<>>
      [] OTHER -> FALSE

\* llm is the outcome of the completion call and of json.loads on the cleaned
\* response; answer is the parsed object
process_receipt_with_ai(ocr_text, llm, answer) ==
    IF llm = "object" THEN
        Returned([answer EXCEPT
            !.amount = IF @.t = "num" THEN @ ELSE JNum(0),
            !.items = IF @.t = "list" THEN @ ELSE JList(<<>>),
            !.merchant = IF Truthy(@) THEN @ ELSE JStr("Unknown Merchant")])
    ELSE fallback_receipt_processing(ocr_text)

(***************************************************************************)
(* ReceiptScannerAgent (agents/receipt_scanner_agent.py).                  *)
(***************************************************************************)
GuessKeywords ==
    << <<"Food & Dining", <<"restaurant", "cafe", "starbucks", "mcdonalds", "pizza", "food",
                            "grocery">> >>,
       <<"Shopping", <<"walmart", "target", "amazon", "clothing", "mall", "store">> >>,
       <<"Transportation", <<"gas", "fuel", "shell", "exxon", "bp", "chevron", "uber",
                             "taxi">> >>,
       <<"Entertainment", <<"movie", "theater", "game", "concert", "entertainment">> >>,
       <<"Healthcare", <<"pharmacy", "cvs", "walgreens", "hospital", "medical", "health">> >>,
       <<"Utilities", <<"electric", "water", "internet", "phone", "cable", "utility">> >> >>

\* " ".join(items) takes a list of strings, or a string character by character
JoinedItems(items) ==
    IF items.t = "list" THEN Join(" ", items.l)
    ELSE Join(" ", [i \in 1..Len(items.s) |-> Ch(items.s, i)])

\* merchant.lower() and " ".join(items) raise on other types
GuessCategoryRaises(merchant, items) == merchant.t # "str" \/ items.t \notin {"list", "str"}

guess_category(merchant, items) ==
    LET merchant_lower == Lower(merchant.s)
        items_text == Lower(JoinedItems(items))
        hits == {c \in 1..Len(GuessKeywords) :
                    AnyIn(GuessKeywords[c][2], merchant_lower)
                    \/ AnyIn(GuessKeywords[c][2], items_text)}
    IN  IF hits = {} THEN "Other"
        ELSE GuessKeywords[CHOOSE c \in hits : \A o \in hits : c <= o][1]

HasAllFields(answer) ==
    /\ answer.merchant.t # "absent" /\ answer.amount.t # "absent"
    /\ answer.date.t # "absent" /\ answer.items.t # "absent"

\* the scanner's ai_enhanced_extraction: agent.execute is outside the try block;
\* inside it, indexing a non-dict result, a missing key or _guess_category
\* raising ends in the except branch, which returns nothing
scanner_ai_enhanced_extraction(agent, answer) ==
    IF agent = "exception" THEN Raised
    ELSE IF agent # "object" \/ ~HasAllFields(answer)
            \/ GuessCategoryRaises(answer.merchant, answer.items)
    THEN ReturnedNone
    ELSE Returned([answer EXCEPT !.category = JStr(guess_category(answer.merchant, answer.items))])

\* process_receipt, given what extract_text_with_ocr returned
process_receipt(raw_text, agent, answer) ==
    IF raw_text = "" THEN ReturnedNone
    ELSE LET structured_data == scanner_ai_enhanced_extraction(agent, answer)
         IN  IF structured_data.kind = "raised" THEN ReturnedNone ELSE structured_data

(***************************************************************************)
(* Image preprocessing and the OCR passes. An image is its mode and the    *)
(* enhancement steps applied to it; every PIL step returns a new image.    *)
(***************************************************************************)
Image(mode) == [mode |-> mode, applied |-> <<>>]

\* the three classes that define preprocess_image
Preprocessors == {"receipt_scanner_agent", "utils.ocr_processor", "ocr_processor"}

\* the steps of the try block, in order; convert only when the mode is not RGB
EnhancementSteps(preprocessor, image) ==
    (IF image.mode # "RGB" THEN <<"convert">> ELSE <<>>)
    \o (IF preprocessor = "ocr_processor" THEN <<"contrast", "sharpness", "median">>
        ELSE <<"contrast", "sharpness", "brightness", "median">>)

ApplyStep(image, step) ==
    [mode |-> IF step = "convert" THEN "RGB" ELSE image.mode,
     applied |-> Append(image.applied, step)]

\* each step rebinds the local name image; the except block returns that name
RECURSIVE RunSteps(_, _, _)
RunSteps(image, steps, failing) ==
    IF steps = <<>> THEN image
    ELSE IF Head(steps) = failing THEN image
    ELSE RunSteps(ApplyStep(image, Head(steps)), Tail(steps), failing)

\* preprocess_image; failing names the step that raises ("none": no step does,
\* "mode": reading image.mode does)
preprocess_image(preprocessor, image, failing) ==
    IF failing = "mode" THEN [kind |-> "image", image |-> image]
    ELSE [kind |-> "image", image |-> RunSteps(image, EnhancementSteps(preprocessor, image), failing)]

\* what one pytesseract.image_to_string call does: raise, or return a text
OcrPass(raised, text) == [raised |-> raised, text |-> text]

\* the loop over configs (psm 6, psm 4, psm 3): outs[i] is the outcome of the
\* i-th configuration
RECURSIVE OcrPassTexts(_, _, _)
OcrPassTexts(outs, i, texts) ==
    IF i > Len(outs) THEN texts
    ELSE IF outs[i].raised THEN OcrPassTexts(outs, i + 1, texts)
    ELSE IF Strip(outs[i].text) # "" THEN OcrPassTexts(outs, i + 1, Append(texts, Strip(outs[i].text)))
    ELSE OcrPassTexts(outs, i + 1, texts)

RECURSIVE OcrPassTextsStopAtFailure(_, _, _)
OcrPassTextsStopAtFailure(outs, i, texts) ==
    IF i > Len(outs) THEN texts
    ELSE IF outs[i].raised THEN texts
    ELSE IF Strip(outs[i].text) # "" THEN OcrPassTextsStopAtFailure(outs, i + 1, Append(texts, Strip(outs[i].text)))
    ELSE OcrPassTextsStopAtFailure(outs, i + 1, texts)

scanner_extract_text_stop_at_failure(outs) ==
    [kind |-> "text", text |-> Join("\n", OcrPassTextsStopAtFailure(outs, 1, <<>>))]

\* ReceiptScannerAgent.extract_text_with_ocr
scanner_extract_text_with_ocr(outs) ==
    [kind |-> "text", text |-> Join("\n", OcrPassTexts(outs, 1, <<>>))]

(***************************************************************************)
(* Initial state: AIAgentOrchestrator.__init__ and DataManager.__init__    *)
(* (ensure_data_file writes [] when the file is missing).                  *)
(***************************************************************************)
InitState ==
    /\ recent_expenses = <<>>
    /\ budget_data = EmptyBudget
    /\ passed = <<>>
    /\ store = <<>>
    /\ corrupt = FALSE
    /\ lastOp = NoOp

(***************************************************************************)
(* SpecMemory: the orchestrator's memory under sequences of calls.         *)
(***************************************************************************)
UpdateAgentMemoryCall ==
    /\ Len(passed) < MaxUpdates
    /\ LET expense_data == MemoryRecord(Len(passed) + 1)
       IN  /\ recent_expenses' = update_agent_memory(recent_expenses, expense_data)
           /\ passed' = Append(passed, expense_data)
    /\ lastOp' = [op |-> "update_agent_memory", ok |-> TRUE]
    /\ UNCHANGED <<impl, pandas_strict, budget_data, store, corrupt, call, ret>>

\* expense dicts as the dashboard hands them over (expenses_df.to_dict('records'))
Hist(amount, date, category) == [amount |-> amount, date |-> date, category |-> category]

Histories ==
    { <<>>,
      <<Hist(1250, "2024-01-15", "Food & Dining"), Hist(4500, "2024-02-03", "Groceries"),
        Hist(320, "2024-02-10", "Food & Dining"), Hist(4500, "2024-02-11", "Shoping")>> }

Incomes == {300000}

GenerateBudgetCall ==
    \E income \in Incomes, history \in Histories, llm \in LLMOutcomes :
        /\ call' = [fn |-> "generate_budget_with_ai", income |-> income,
                    history |-> history, llm |-> llm]
        /\ ret' = generate_budget_with_ai(impl, income, history, llm)
        /\ budget_data' = budget_memory_after(budget_data, history, llm)
        /\ lastOp' = [op |-> "generate_budget_with_ai", ok |-> ~TryBlockRaises(llm)]
        /\ UNCHANGED <<impl, pandas_strict, recent_expenses, passed, store, corrupt>>

GenerateInsightsCall ==
    \E history \in Histories, llm \in LLMOutcomes :
        /\ call' = [fn |-> "generate_insights_with_ai", income |-> 0,
                    history |-> history, llm |-> llm]
        /\ ret' = generate_insights_with_ai(history, llm)
        /\ lastOp' = [op |-> "generate_insights_with_ai", ok |-> ~TryBlockRaises(llm)]
        /\ UNCHANGED <<impl, pandas_strict, recent_expenses, budget_data, passed, store, corrupt>>

InitMemory == InitState /\ impl \in Impls /\ pandas_strict = FALSE /\ call = NoCall /\ ret = NoRet

NextMemory == UpdateAgentMemoryCall \/ GenerateBudgetCall \/ GenerateInsightsCall

SpecMemory == InitMemory /\ [][NextMemory]_vars

(***************************************************************************)
(* The receipt tab of app.py. Streamlit reruns main() on every interaction;*)
(* one action is one run of the script with a file uploaded.               *)
(***************************************************************************)
\* what the language model may answer to the extraction prompt (the prompt
\* asks to fill a missing field with 'Unknown'; the schema suggests 'Shoping')
LLMReceipts ==
    { Expense(0, JStr("Walmart"), JNum(4567), JStr("2024-01-15"), JList(<<"MILK">>),
              JStr("Groceries")),
      Expense(0, JStr("Starbucks"), JNum(1250), JStr("01/15/2024"), JStr("LATTE"),
              JStr("Shoping")),
      Expense(0, JStr("Unknown"), JStr("Unknown"), JStr("Unknown"), JStr("Unknown"),
              JStr("Unknown")),
      Expense(0, JStr("Shell"), JNum(-500), JStr("2024-02-03"), JNull,
              JStr("Transportation & Gas")) }

\* outcomes of model.invoke and of reading its function-call arguments
ExtractLLMOutcomes == {"exception", "no_function_call", "nonjson", "missing_field", "object"}

\* agent_orchestrator.ai_enhanced_extraction: no try block; the answer's fields
\* are copied as they are
ai_enhanced_extraction(llm, answer) ==
    IF llm = "object" /\ HasAllFields(answer) /\ answer.category.t # "absent"
    THEN Returned(answer) ELSE Raised

\* utils/ocr_processor.extract_text_with_ocr: the stripped text, "" on any exception
OcrResults == {"", "WALMART\n01/15/2024\nTOTAL $45.67"}

\* the widget section of the try block: float(amount) and
\* st.number_input(min_value=0.0) raise on a non-number and on a negative
\* number, ", ".join(items[:5]) raises on None
WidgetsRaise(rec) ==
    \/ rec.amount.t # "num"
    \/ rec.amount.n < 0
    \/ rec.items.t \notin {"list", "str"}

\* lines 108-150: the try block of the receipt column
ReceiptColumn(ocr_result, llm, answer) ==
    IF ocr_result = "" THEN [bound |-> FALSE, rec |-> NoRecord, ui |-> "no_text"]
    ELSE LET r == ai_enhanced_extraction(llm, answer)
         IN  IF r.kind = "raised" THEN [bound |-> FALSE, rec |-> NoRecord, ui |-> "error"]
             ELSE [bound |-> TRUE, rec |-> r.rec,
                   ui |-> IF WidgetsRaise(r.rec) THEN "error" ELSE "widgets"]

\* a run in which the Save Expense button was not pressed
ViewReceipt ==
    \E ocr_result \in OcrResults, llm \in ExtractLLMOutcomes, answer \in LLMReceipts :
        LET col == ReceiptColumn(ocr_result, llm, answer)
        IN  /\ call' = [fn |-> "receipt_tab", text |-> ocr_result, llm |-> llm, pressed |-> FALSE]
            /\ ret' = [kind |-> "run", bound |-> col.bound, rec |-> col.rec, ui |-> col.ui,
                       end |-> "rendered"]
            /\ lastOp' = [op |-> "view", ok |-> col.bound]
            /\ UNCHANGED <<impl, pandas_strict, recent_expenses, budget_data, passed, store, corrupt>>

\* what the user may have typed into the edit widgets before pressing Save
WidgetEdits == {"none", "corrected"}

NoWidgets == [shown |-> FALSE, amount |-> JAbsent, date |-> JAbsent, merchant |-> JAbsent,
              category |-> JAbsent]

\* the values of the amount, date, merchant and category widgets (lines
\* 124-143): the extracted values, or the user's
WidgetValues(col, edit) ==
    IF ~col.bound \/ col.ui # "widgets" THEN NoWidgets
    ELSE IF edit = "none"
    THEN [shown |-> TRUE, amount |-> col.rec.amount, date |-> col.rec.date,
          merchant |-> col.rec.merchant, category |-> col.rec.category]
    ELSE [shown |-> TRUE, amount |-> JNum(9999), date |-> JStr("2024-02-02"),
          merchant |-> JStr("Corrected Merchant"), category |-> JStr("Groceries")]

\* a run in which Save Expense was pressed (lines 151-159): expense_data is
\* ai_extracted_data, the memory is updated, then add_expense is called and
\* its result is not looked at
SaveExpenseRun(ocr_result, llm, answer, save, edit) ==
    LET col == ReceiptColumn(ocr_result, llm, answer)
        expense_data == [col.rec EXCEPT !.id = Len(passed) + 1]
    IN  /\ call' = [fn |-> "receipt_tab", text |-> ocr_result, llm |-> llm, pressed |-> TRUE]
        /\ IF ~col.bound
           THEN \* expense_data = ai_extracted_data raises NameError: the run ends there
                /\ ret' = [kind |-> "run", bound |-> FALSE, rec |-> NoRecord, ui |-> col.ui,
                           end |-> "NameError", widgets |-> NoWidgets]
                /\ lastOp' = [op |-> "save_pressed", ok |-> FALSE]
                /\ UNCHANGED <<recent_expenses, passed, store, corrupt>>
           ELSE /\ Len(passed) < MaxStore
                /\ recent_expenses' = update_agent_memory(recent_expenses, Stamp(expense_data))
                /\ passed' = Append(passed, expense_data)
                /\ store' = CASE save = "ok" ->
                                   add_expense_frame(store, corrupt, pandas_strict, expense_data)
                              [] save = "open_fail" -> store
                              [] OTHER -> <<>>
                /\ corrupt' = CASE save = "ok" -> FALSE
                                [] save = "open_fail" -> corrupt
                                [] OTHER -> TRUE
                /\ ret' = [kind |-> "run", bound |-> TRUE, rec |-> Stamp(expense_data),
                           ui |-> col.ui, end |-> "saved_message",
                           widgets |-> WidgetValues(col, edit)]
                /\ lastOp' = [op |-> "add_expense", ok |-> (save = "ok")]
        /\ UNCHANGED <<impl, pandas_strict, budget_data>>

\* Save Expense pressed with the widgets as the extraction filled them
SaveExpense ==
    \E ocr_result \in OcrResults, llm \in ExtractLLMOutcomes, answer \in LLMReceipts,
       save \in SaveOutcomes :
        SaveExpenseRun(ocr_result, llm, answer, save, "none")

Init == InitState /\ impl = "agent_orchestrator" /\ pandas_strict \in BOOLEAN
        /\ call = NoCall /\ ret = NoRet

Next == ViewReceipt \/ SaveExpense

Spec == Init /\ [][Next]_vars

(***************************************************************************)
(* SpecCategorize: the two categorizers applied to bounded inputs.         *)
(***************************************************************************)
Merchants == {"Walmart", "Starbucks Cafe", "Joe's Diner", "Shell Gas", "City Service", "Corner Shop"}

ItemLists ==
    {<<>>, <<"Pizza Slice">>, <<"Movie Ticket", "Popcorn">>, <<"Movie Game", "Concert Museum">>}

AICategories == {JStr("Groceries"), JStr("Food & Dining"), JStr("Shoping"), JStr("Unknown"), JAbsent}

AIConfidences == {JNum(80), JNum(90), JNum(60), JNum(150), JNum(-20), JStr("high"), JNull, JAbsent}

AIAnswers ==
    {AIAnswer(o, JAbsent, JAbsent) : o \in {"exception", "nonjson", "nondict"}}
    \cup {AIAnswer("object", c, k) : c \in AICategories, k \in AIConfidences}

CategorizeCalls ==
    {[fn |-> f, merchant |-> m, items |-> i, answer |-> a] :
        f \in {"categorize_expense", "categorize_expense_with_ai"},
        m \in Merchants, i \in ItemLists, a \in AIAnswers}
    \cup {[fn |-> "_rule_based_categorization", merchant |-> m, items |-> i,
           answer |-> AIAnswer("exception", JAbsent, JAbsent)] :
            m \in Merchants, i \in ItemLists}

CategorizeExpenseCall ==
    /\ call.fn = "categorize_expense"
    /\ ret = NoRet
    /\ ret' = categorize_expense(call.merchant, call.items, call.answer)
    /\ lastOp' = [op |-> "categorize_expense", ok |-> TRUE]
    /\ UNCHANGED <<impl, pandas_strict, recent_expenses, budget_data, passed, store, corrupt, call>>

CategorizeExpenseWithAICall ==
    /\ call.fn = "categorize_expense_with_ai"
    /\ ret = NoRet
    /\ ret' = categorize_expense_with_ai(call.merchant, call.answer)
    /\ lastOp' = [op |-> "categorize_expense_with_ai", ok |-> TRUE]
    /\ UNCHANGED <<impl, pandas_strict, recent_expenses, budget_data, passed, store, corrupt, call>>

\* the rule-based pass alone
RuleBasedCategorizationCall ==
    /\ call.fn = "_rule_based_categorization"
    /\ ret = NoRet
    /\ ret' = [kind |-> "rule", category |-> rule_based_categorization(call.merchant, call.items)]
    /\ lastOp' = [op |-> "_rule_based_categorization", ok |-> TRUE]
    /\ UNCHANGED <<impl, pandas_strict, recent_expenses, budget_data, passed, store, corrupt, call>>

InitCategorize == InitState /\ impl = "ai_agent_orchestrator" /\ pandas_strict = FALSE
                  /\ call \in CategorizeCalls /\ ret = NoRet

NextCategorize == CategorizeExpenseCall \/ CategorizeExpenseWithAICall \/ RuleBasedCategorizationCall

SpecCategorize == InitCategorize /\ [][NextCategorize]_vars

(***************************************************************************)
(* SpecPipeline: each receipt-pipeline entry point applied once to a       *)
(* bounded OCR text, language-model outcome and language-model answer.     *)
(***************************************************************************)
OcrTexts ==
    { "",
      "WALMART\n01/15/2024\nTOTAL $45.67",
      "Joe's Diner\nJan 5, 2024\nBurger 12.50\nAmount: 13.75",
      "12345\n2012-01-15\nCASH $20",
      "THANK YOU\nCOME AGAIN" }

\* the answers of LLMReceipts and an object that leaves fields out
PipelineReceipts ==
    LLMReceipts \cup {Expense(0, JStr(""), JAbsent, JAbsent, JAbsent, JStr("Other"))}

\* what agent.execute hands back: an exception, its text output, a mapping
AgentOutcomes == {"exception", "string", "object"}

PipelineCall(fn, text, llm, answer) == [fn |-> fn, text |-> text, llm |-> llm, answer |-> answer]

PipelineCalls ==
    {PipelineCall("extract_receipt_data", text, "none", NoRecord) : text \in OcrTexts}
    \cup {PipelineCall(fn, text, agent, answer) :
            fn \in {"process_receipt", "scanner_ai_enhanced_extraction"},
            text \in OcrTexts, agent \in AgentOutcomes, answer \in PipelineReceipts}
    \cup {PipelineCall("ai_enhanced_extraction", text, llm, answer) :
            text \in OcrTexts, llm \in ExtractLLMOutcomes, answer \in PipelineReceipts}
    \cup {PipelineCall("process_receipt_with_ai", text, llm, answer) :
            text \in OcrTexts, llm \in LLMOutcomes, answer \in PipelineReceipts}

PipelineReturn(result) ==
    /\ ret = NoRet
    /\ ret' = result
    /\ UNCHANGED <<impl, pandas_strict, recent_expenses, budget_data, passed, store, corrupt,
                   lastOp, call>>

ExtractReceiptDataCall ==
    /\ call.fn = "extract_receipt_data"
    /\ PipelineReturn(extract_receipt_data(call.text))

ProcessReceiptCall ==
    /\ call.fn = "process_receipt"
    /\ PipelineReturn(process_receipt(call.text, call.llm, call.answer))

ScannerAIEnhancedExtractionCall ==
    /\ call.fn = "scanner_ai_enhanced_extraction"
    /\ PipelineReturn(scanner_ai_enhanced_extraction(call.llm, call.answer))

AIEnhancedExtractionCall ==
    /\ call.fn = "ai_enhanced_extraction"
    /\ PipelineReturn(ai_enhanced_extraction(call.llm, call.answer))

ProcessReceiptWithAICall ==
    /\ call.fn = "process_receipt_with_ai"
    /\ PipelineReturn(process_receipt_with_ai(call.text, call.llm, call.answer))

InitPipeline ==
    /\ InitState /\ pandas_strict = FALSE
    /\ call \in PipelineCalls /\ ret = NoRet
    /\ impl = IF call.fn = "ai_enhanced_extraction" THEN "agent_orchestrator"
              ELSE "ai_agent_orchestrator"

NextPipeline ==
    \/ ExtractReceiptDataCall
    \/ ProcessReceiptCall
    \/ ScannerAIEnhancedExtractionCall
    \/ AIEnhancedExtractionCall
    \/ ProcessReceiptWithAICall

SpecPipeline == InitPipeline /\ [][NextPipeline]_vars

\* the structuring step (either orchestrator) has been called and has ended
IsStructuring ==
    call.fn \in {"ai_enhanced_extraction", "process_receipt_with_ai"} /\ ret # NoRet

\* the language-model call threw, or its response was not parseable as JSON
StructuringLLMFailed == call.llm \in {"exception", "no_function_call", "nonjson"}

\* C6: when the structuring step's language-model call throws or its response
\* cannot be parsed, the caller receives the record of the regex Field
\* Extractor for the same raw text: its merchant, amount, date and items.
C6_FallbackIsFieldExtractorRecord ==
    (IsStructuring /\ StructuringLLMFailed) =>
        /\ ret.kind = "record"
        /\ ret.rec.merchant = JStr(extract_merchant(call.text))
        /\ ret.rec.amount = JNum(extract_amount(call.text).cents)
        /\ ret.rec.date = JStr(extract_date(call.text))
        /\ ret.rec.items = JList(extract_items(call.text))

\* a pipeline entry point has been called and has ended
IsPipelineReturn ==
    /\ call.fn \in {"process_receipt", "extract_receipt_data", "scanner_ai_enhanced_extraction",
                    "ai_enhanced_extraction", "process_receipt_with_ai"}
    /\ ret # NoRet

\* C7: every pipeline entry point returns a result object for every combination
\* of stage failures: it never returns None and never raises.
C7_EntryPointsAlwaysReturnRecord ==
    IsPipelineReturn => ret.kind = "record"

IsISODate(v) == v.t = "str" /\ DateShape(v.s) = "iso" /\ to_datetime(v.s).ok

\* C9: every record returned by the structuring step, from the AI path or from
\* the regex fallback, has a numeric non-negative amount and a present,
\* parseable ISO-8601 date.
C9_AmountAndDateAlwaysUsable ==
    (/\ call.fn \in {"ai_enhanced_extraction", "process_receipt_with_ai", "extract_receipt_data"}
     /\ ret # NoRet /\ ret.kind = "record") =>
        /\ ret.rec.amount.t = "num" /\ ret.rec.amount.n >= 0
        /\ IsISODate(ret.rec.date)

(***************************************************************************)
(* SpecLoad: load_expenses applied once to a data file written by older    *)
(* versions, whose dicts carry the optional keys or not.                   *)
(***************************************************************************)
MaxFile == 2

LegacyRecord(is_recurring, ai_tags, timestamp, confidence) ==
    [Expense(0, JStr("Walmart"), JNum(4567), JStr("2024-01-15"), JList(<<"MILK">>),
             JStr("Groceries"))
        EXCEPT !.is_recurring = is_recurring, !.ai_tags = ai_tags,
               !.timestamp = timestamp, !.confidence = confidence]

LegacyRecords ==
    {LegacyRecord(r, g, t, c) :
        r \in {JAbsent, JBool(TRUE)}, g \in {JAbsent, JList(<<"food">>)},
        t \in {JAbsent, JStr("2023-12-31T10:00:00")}, c \in {JAbsent, JNum(90)}}

\* the files of one to MaxFile records; a record's id is its place in the file
LegacyFiles ==
    UNION {{[i \in 1..n |-> [f[i] EXCEPT !.id = i]] : f \in [1..n -> LegacyRecords]} :
             n \in 1..MaxFile}

LoadExpensesCall ==
    /\ call.fn = "load_expenses"
    /\ ret = NoRet
    /\ ret' = [kind |-> "frame", rows |-> load_expenses(store, corrupt, pandas_strict)]
    /\ lastOp' = [op |-> "load_expenses", ok |-> TRUE]
    /\ UNCHANGED <<impl, pandas_strict, recent_expenses, budget_data, passed, store, corrupt, call>>

InitLoad ==
    /\ impl = "agent_orchestrator" /\ pandas_strict = FALSE
    /\ recent_expenses = <<>> /\ budget_data = EmptyBudget /\ passed = <<>>
    /\ store \in LegacyFiles /\ corrupt = FALSE
    /\ lastOp = NoOp /\ call = [fn |-> "load_expenses"] /\ ret = NoRet

NextLoad == LoadExpensesCall

SpecLoad == InitLoad /\ [][NextLoad]_vars

\* load_expenses has returned the frame of the file in store
IsLoaded == call.fn = "load_expenses" /\ ret.kind = "frame"

IsUnset(v) == v.t \in {"absent", "nan", "null"}

\* C16: load_expenses fills defaults per record: a stored record without
\* is_recurring loads with false, without tags with an empty collection,
\* without timestamp with the current time, without confidence with confidence
\* unset, also when other records of the store carry the field.
C16_DefaultsPerRecord ==
    IsLoaded =>
        /\ Len(ret.rows) = Len(store)
        /\ \A i \in 1..Len(store) : \E j \in 1..Len(ret.rows) :
              /\ ret.rows[j].id = store[i].id
              /\ store[i].is_recurring.t = "absent" => ret.rows[j].is_recurring = JBool(FALSE)
              /\ store[i].ai_tags.t = "absent" => ret.rows[j].ai_tags = JList(<<>>)
              /\ store[i].timestamp.t = "absent" => ret.rows[j].timestamp = JStr("now")
              /\ store[i].confidence.t = "absent" => IsUnset(ret.rows[j].confidence)

(***************************************************************************)
(* SpecOCR: preprocess_image and the scanner's extract_text_with_ocr       *)
(* applied once.                                                           *)
(***************************************************************************)
FailingSteps == {"none", "mode", "convert", "contrast", "sharpness", "brightness", "median"}

PassOutcomes ==
    {OcrPass(TRUE, ""), OcrPass(FALSE, ""), OcrPass(FALSE, " \n"),
     OcrPass(FALSE, "WALMART\nTOTAL $45.67\n"), OcrPass(FALSE, " TOTAL 45.67")}

OcrCalls ==
    {[fn |-> "preprocess_image", preprocessor |-> p, image |-> Image(m), failing |-> f,
      outs |-> <<>>] : p \in Preprocessors, m \in {"RGB", "L"}, f \in FailingSteps}
    \cup {[fn |-> "extract_text_with_ocr", preprocessor |-> "receipt_scanner_agent",
           image |-> Image("RGB"), failing |-> "none", outs |-> <<a, b, c>>] :
             a \in PassOutcomes, b \in PassOutcomes, c \in PassOutcomes}

PreprocessImageCall ==
    /\ call.fn = "preprocess_image"
    /\ PipelineReturn(preprocess_image(call.preprocessor, call.image, call.failing))

ExtractTextWithOcrCall ==
    /\ call.fn = "extract_text_with_ocr"
    /\ PipelineReturn(scanner_extract_text_with_ocr(call.outs))

InitOCR ==
    /\ InitState /\ pandas_strict = FALSE /\ impl = "agent_orchestrator"
    /\ call \in OcrCalls /\ ret = NoRet

NextOCR == PreprocessImageCall \/ ExtractTextWithOcrCall

SpecOCR == InitOCR /\ [][NextOCR]_vars

\* preprocess_image has ended in a run in which a step of it raised
PreprocessStepFailed ==
    /\ call.fn = "preprocess_image" /\ ret # NoRet
    /\ \/ call.failing = "mode"
       \/ \E i \in 1..Len(EnhancementSteps(call.preprocessor, call.image)) :
             EnhancementSteps(call.preprocessor, call.image)[i] = call.failing

\* C17: when an enhancement step raises, preprocess_image does not raise and
\* returns the original, unmodified image, not one carrying the steps that
\* completed before the failure.
C17_FailureReturnsOriginalImage ==
    PreprocessStepFailed => (ret.kind = "image" /\ ret.image = call.image)

\* pass i of extract_text_with_ocr returned text that is not blank
PassKept(i) == ~call.outs[i].raised /\ Strip(call.outs[i].text) # ""

PassText(i) == IF PassKept(i) THEN <<Strip(call.outs[i].text)>> ELSE <<>>

MaxTokens == 2

AmountTokens == {"$12.50", "$45.00", "$3.20", "$5", "$", "99.99", "TOTAL", "Amount:"}

\* the texts of one to MaxTokens tokens, one blank between two tokens
\* receipts with several priced lines
ReceiptTexts ==
    {"Lunch $12.50\nDinner $45.00\nTip $3.20",
     "Joe's Diner\nBurger 12.50\nAmount: 13.75"}

AmountTexts ==
    ReceiptTexts
    \cup UNION {{Join(" ", t) : t \in [1..n -> AmountTokens]} : n \in 1..MaxTokens}

AmountCalls ==
    {PipelineCall(fn, text, "none", NoRecord) :
        fn \in {"extract_receipt_data", "_fallback_receipt_processing"}, text \in AmountTexts}

FallbackReceiptProcessingCall ==
    /\ call.fn = "_fallback_receipt_processing"
    /\ PipelineReturn(fallback_receipt_processing(call.text))

InitAmount ==
    /\ InitState /\ pandas_strict = FALSE /\ impl = "ai_agent_orchestrator"
    /\ call \in AmountCalls /\ ret = NoRet

NextAmount == ExtractReceiptDataCall \/ FallbackReceiptProcessingCall

SpecAmount == InitAmount /\ [][NextAmount]_vars

\* the Field Extractor has returned its record for call.text
IsFieldExtraction == call.fn = "extract_receipt_data" /\ ret # NoRet /\ ret.kind = "record"

\* a dollar sign followed, after optional blanks, by a digit
HasDollarNumber(text) ==
    \E i \in 1..Len(text) :
        /\ Ch(text, i) = "$"
        /\ SkipSpaces(text, i + 1) <= Len(text)
        /\ IsDigit(Ch(text, SkipSpaces(text, i + 1)))

\* a number with cents after the word total or amount
HasLabelledNumber(text) ==
    \E i \in 1..Len(text) :
        MatchLabelled(text, i, "total").ok \/ MatchLabelled(text, i, "amount").ok

HasPlainNumber(text) == \E i \in 1..Len(text) : IsDigit(Ch(text, i))

\* C19 as stated: for a text with no dollar-sign-prefixed number the amount of
\* the Field Extractor's record is 0.0, also when the text holds numbers
\* without a dollar sign.
C19_NoDollarNumberGivesZero ==
    (IsFieldExtraction /\ ~HasDollarNumber(call.text)) => ret.rec.amount = JNum(0)

\* C19, amended: for a text with no dollar-sign-prefixed number and no number
\* with cents after the word total or amount, the amount of the Field
\* Extractor's record is 0.0, also when the text holds other numbers.
C19_NoAmountMatchGivesZero ==
    (IsFieldExtraction /\ ~HasDollarNumber(call.text) /\ ~HasLabelledNumber(call.text))
        => ret.rec.amount = JNum(0)

\* a text with a number but neither a dollar sign nor a label before it
C19_Witness ==
    /\ IsFieldExtraction /\ call.text = "99.99 Amount:"
    /\ HasPlainNumber(call.text) /\ ~HasDollarNumber(call.text)
    /\ ~HasLabelledNumber(call.text)
    /\ ret.rec.amount = JNum(0)

\* the values, in hundredths, of the amount matches of a text: a dollar sign
\* followed by digits with optional cents, and a number with cents after total
\* or amount
AmountMatchValues(text) ==
    {MatchDollar(text, i, TRUE).cents : i \in {j \in 1..Len(text) : MatchDollar(text, j, TRUE).ok}}
    \cup {MatchLabelled(text, i, "total").cents :
            i \in {j \in 1..Len(text) : MatchLabelled(text, j, "total").ok}}
    \cup {MatchLabelled(text, i, "amount").cents :
            i \in {j \in 1..Len(text) : MatchLabelled(text, j, "amount").ok}}

\* C20: the Field Extractor's amount is the maximum value among all amount
\* matches of the text.
C20_AmountIsMaximumMatch ==
    (IsFieldExtraction /\ AmountMatchValues(call.text) # {}) =>
        /\ ret.rec.amount.t = "num"
        /\ ret.rec.amount.n \in AmountMatchValues(call.text)
        /\ \A v \in AmountMatchValues(call.text) : v <= ret.rec.amount.n

\* $12.50, $45.00 and $3.20 yield 45.00
C20_Witness ==
    /\ IsFieldExtraction /\ call.text = "Lunch $12.50\nDinner $45.00\nTip $3.20"
    /\ ret.rec.amount = JNum(4500)

\* the categorization call under study has ended
IsCategorization ==
    call.fn \in {"categorize_expense", "categorize_expense_with_ai"} /\ ret.kind # "none"

\* C3: the category of every categorization result and of every record the
\* receipt flow puts in the persisted store is one of the 13 categories.
C3_CategoryInFixedSet ==
    /\ (IsCategorization /\ ret.kind = "result") => ret.category \in Categories
    /\ \A i \in 1..Len(store) :
          store[i].category.t = "str" /\ store[i].category.s \in Categories

\* C4: the confidence the reconciler returns is a number in [0,1] in every
\* branch and for every confidence the AI pass reports.
C4_ConfidenceInUnitInterval ==
    (IsCategorization /\ ret.kind = "result") =>
        /\ ret.confidence.t = "num"
        /\ ret.confidence.n >= 0
        /\ ret.confidence.n <= 100

\* C5: categorization never propagates an exception: every call returns a
\* result, and a failed AI pass is resolved by the rule-only or last-resort
\* branch.
C5_CategorizationNeverRaises ==
    IsCategorization =>
        /\ ret.kind = "result"
        /\ (call.fn = "categorize_expense" /\ call.answer.outcome # "object")
              => ret.branch \in {"rule_only", "fallback"}

\* C1: after n update_agent_memory calls from an empty memory, recent_expenses
\* is exactly the last min(n, 50) records passed in, in call order, and never
\* holds more than 50 records.
C1_MemoryIsLastFifty ==
    /\ Len(recent_expenses) = Min(Len(passed), MemoryLimit)
    /\ \A i \in 1..Len(recent_expenses) :
          recent_expenses[i] = passed[Len(passed) - Len(recent_expenses) + i]
    /\ Len(recent_expenses) <= MemoryLimit

\* C1 witness: 55 updates were made and the memory holds updates 6..55
C1_Witness ==
    /\ Len(passed) = 55
    /\ Len(recent_expenses) = 50
    /\ recent_expenses[1].id = 6
    /\ recent_expenses[50].id = 55

\* C8: generate_budget_with_ai and generate_insights_with_ai return a
\* well-formed object for every outcome of the language-model call; when the
\* call throws or its answer does not parse, the object is the deterministic
\* fallback built from the aggregates, never None.
C8_BudgetAndInsightsAlwaysWellFormed ==
    /\ call.fn = "generate_budget_with_ai" =>
          /\ ret.kind = "budget"
          /\ TryBlockRaises(call.llm) =>
                /\ ret.src = "fallback"
                /\ ret.total_income = call.income
                /\ \A c \in DOMAIN ret.monthly_budget :
                      ret.monthly_budget[c].current = TotalFor(call.history, "category", c)
    /\ call.fn = "generate_insights_with_ai" =>
          /\ ret.kind = "insights"
          /\ (TryBlockRaises(call.llm) /\ call.history # <<>>) =>
                /\ ret.src = "fallback"
                /\ ret.predicted_total = SumAmounts(call.history)
                /\ ret.count = Len(call.history)

\* an add_expense call has just returned True
AddReturnedTrue == passed' # passed /\ lastOp'.op = "add_expense" /\ lastOp'.ok

\* C2: the store is append-only under add_expense: a call that returns True
\* keeps every record that was in the store and adds exactly one.
C2_AddExpenseAppendOnly ==
    [][AddReturnedTrue =>
          /\ Len(store') = Len(store) + 1
          /\ \A i \in 1..Len(store) : \E j \in 1..Len(store') : store'[j].id = store[i].id]_vars

\* C10: the memory is updated only after a successful save: every record in
\* AgentMemory is also in the persisted store, and a save that failed left
\* the memory as it was.
C10_MemoryOnlyAfterSuccessfulSave ==
    \A i \in 1..Len(recent_expenses) :
        \E j \in 1..Len(store) : store[j].id = recent_expenses[i].id

\* categorize_expense has ended; the outcomes of its two passes
IsCategorizeExpense == call.fn = "categorize_expense" /\ ret.kind # "none"
RulePass == rule_based_categorization(call.merchant, call.items)
AIPass == ai_categorization(call.answer)

\* both passes produced a category and the AI confidence is a number
BothPasses ==
    IsCategorizeExpense /\ RulePass # NoCategory /\ AIPass.ok /\ AIPass.confidence.t = "num"

\* C11: when both passes produce the same category, the reconciler returns it
\* with confidence min(0.95, c + 0.1), c being the AI confidence.
C11_AgreeConfidence ==
    (BothPasses /\ RulePass = AIPass.category) =>
        /\ ret.kind = "result"
        /\ ret.category = RulePass
        /\ ret.confidence.t = "num"
        /\ ret.confidence.n = (IF AIPass.confidence.n + 10 < 95 THEN AIPass.confidence.n + 10
                               ELSE 95)

\* rule and AI agree, and both the uncapped case (0.8 gives 0.9) and the capped
\* case (0.9 gives 0.95) are told apart by the confidence reported
C11_Witness ==
    /\ BothPasses /\ RulePass = AIPass.category
    /\ AIPass.confidence.n = 90 /\ ret.kind = "result" /\ ret.confidence.n = 95

\* C12: when both passes produce a category and they differ, the reconciler
\* returns the AI category, never the rule category, with confidence
\* max(0.7, c - 0.1).
C12_DisagreePrefersAI ==
    (BothPasses /\ RulePass # AIPass.category) =>
        /\ ret.kind = "result"
        /\ ret.category = AIPass.category
        /\ ret.category # RulePass
        /\ ret.confidence.t = "num"
        /\ ret.confidence.n = (IF AIPass.confidence.n - 10 > 70 THEN AIPass.confidence.n - 10
                               ELSE 70)

\* rule says Groceries, the AI says Food & Dining with 0.8: Food & Dining, 0.7
C12_Witness ==
    /\ BothPasses /\ RulePass = "Groceries" /\ AIPass.category = "Food & Dining"
    /\ AIPass.confidence.n = 80
    /\ ret.kind = "result" /\ ret.category = "Food & Dining" /\ ret.confidence.n = 70

\* the categories one of whose keywords occurs in the merchant name
MerchantCategories(merchant) ==
    {i \in 1..Len(KeywordCategories) :
        KeywordScore(category_keywords(KeywordCategories[i]), Lower(merchant), "") > 0}

\* the categories one of whose keywords occurs in the items
ItemCategories(items) ==
    {i \in 1..Len(KeywordCategories) :
        KeywordScore(category_keywords(KeywordCategories[i]), "", Lower(Join(" ", items))) > 0}

\* no AI result, and the merchant matches keywords of exactly one category
RuleOnlyOneCategory ==
    /\ IsCategorizeExpense /\ ~AIPass.ok
    /\ \E i \in MerchantCategories(call.merchant) : MerchantCategories(call.merchant) = {i}

\* C13 as stated: with no AI result and a merchant matching a keyword of
\* exactly one category, categorize_expense returns that category with
\* confidence exactly 0.75, whatever the items are.
C13_RuleOnlyAnyItems ==
    RuleOnlyOneCategory =>
        /\ ret.kind = "result"
        /\ MerchantCategories(call.merchant) = {i \in 1..Len(KeywordCategories) :
                                                   KeywordCategories[i] = ret.category}
        /\ ret.confidence = JNum(75)

\* C13, amended: with no AI result, a merchant matching a keyword of exactly
\* one category and items matching no keyword of any other category,
\* categorize_expense returns that category with confidence exactly 0.75.
C13_RuleOnlyMerchantCategory ==
    (RuleOnlyOneCategory /\ ItemCategories(call.items) \subseteq MerchantCategories(call.merchant)) =>
        /\ ret.kind = "result"
        /\ MerchantCategories(call.merchant) = {i \in 1..Len(KeywordCategories) :
                                                   KeywordCategories[i] = ret.category}
        /\ ret.confidence = JNum(75)

\* Walmart with no items and a failed AI pass: Groceries, 0.75
C13_Witness ==
    /\ RuleOnlyOneCategory /\ call.merchant = "Walmart" /\ call.items = <<>>
    /\ ret.kind = "result" /\ ret.category = "Groceries" /\ ret.confidence = JNum(75)

\* C14: when neither pass produces a category the reconciler returns the
\* category of the last-resort merchant heuristic, one of four, with confidence
\* exactly 0.5; that branch is taken only when both passes produced nothing.
C14_LastResort ==
    IsCategorizeExpense =>
        /\ (RulePass = NoCategory /\ ~AIPass.ok) =>
              /\ ret.kind = "result"
              /\ ret.category = fallback_categorization(call.merchant)
              /\ ret.category \in {"Food & Dining", "Shopping & Retail",
                                   "Transportation & Gas", "Other"}
              /\ ret.confidence = JNum(50)
              /\ ret.branch = "fallback"
        /\ ret.branch = "fallback" => (RulePass = NoCategory /\ ~AIPass.ok)

\* Corner Shop matches no rule keyword; with a failed AI pass the heuristic
\* finds "shop": Shopping & Retail, 0.5
C14_Witness ==
    /\ IsCategorizeExpense /\ RulePass = NoCategory /\ ~AIPass.ok
    /\ call.merchant = "Corner Shop"
    /\ ret.kind = "result" /\ ret.category = "Shopping & Retail" /\ ret.confidence = JNum(50)

\* add_expense has just returned True for the record last passed to it
JustSaved == lastOp.op = "add_expense" /\ lastOp.ok /\ passed # <<>>

\* the same date value, or two strings naming the same calendar day
SameDate(a, b) ==
    \/ a = b
    \/ /\ a.t = "str" /\ b.t = "str"
       /\ to_datetime(a.s).ok /\ to_datetime(b.s).ok
       /\ DateKey(to_datetime(a.s)) = DateKey(to_datetime(b.s))

\* C15: saving a record with add_expense and then reloading with load_expenses
\* yields a sequence holding a record with the same merchant, amount, date and
\* category as the one saved, for every record and every prior store content.
C15_SaveThenLoadRoundTrip ==
    JustSaved =>
        LET saved == passed[Len(passed)]
            loaded == load_expenses(store, corrupt, pandas_strict)
        IN  \E i \in 1..Len(loaded) :
                /\ loaded[i].merchant = saved.merchant
                /\ loaded[i].amount = saved.amount
                /\ SameDate(loaded[i].date, saved.date)
                /\ loaded[i].category = saved.category


(***************************************************************************)
(* The JSON recovery of an LLM response (process_receipt_with_ai,          *)
(* generate_budget_with_ai): fence removal, slice from the first opening   *)
(* brace to the last closing brace, json.loads.                            *)
(***************************************************************************)
StartsWith(s, prefix) == Len(s) >= Len(prefix) /\ SubSeq(s, 1, Len(prefix)) = prefix

\* the 1-based position of the first occurrence of sub in s, 0 when absent
FirstOccurrence(sub, s) ==
    LET hits == {i \in 1..(Len(s) - Len(sub) + 1) : SubSeq(s, i, i + Len(sub) - 1) = sub}
    IN  IF hits = {} THEN 0 ELSE CHOOSE i \in hits : \A j \in hits : i <= j

\* the 1-based position of the last occurrence of sub in s, 0 when absent
LastOccurrence(sub, s) ==
    LET hits == {i \in 1..(Len(s) - Len(sub) + 1) : SubSeq(s, i, i + Len(sub) - 1) = sub}
    IN  IF hits = {} THEN 0 ELSE CHOOSE i \in hits : \A j \in hits : j <= i

\* str.replace(old, new): every non-overlapping occurrence, left to right
RECURSIVE Replace(_, _, _)
Replace(s, old, new) ==
    LET i == FirstOccurrence(old, s)
    IN  IF i = 0 THEN s
        ELSE SubSeq(s, 1, i - 1) \o new \o Replace(SubSeq(s, i + Len(old), Len(s)), old, new)

\* str.find(c) as a 1-based position, 0 when absent
Find(c, s) == FirstOccurrence(c, s)

\* str.rfind(c) as a 1-based position, 0 when absent
RFind(c, s) == LastOccurrence(c, s)

\* the backquote character
Backtick == SubSeq("`'", 1, 1)

Fence == Backtick \o Backtick \o Backtick
JsonFence == Fence \o "json"

\* the "clean up response" step
clean_response(result) ==
    IF StartsWith(result, JsonFence) THEN Strip(Replace(Replace(result, JsonFence, ""), Fence, ""))
    ELSE IF StartsWith(result, Fence) THEN Strip(Replace(result, Fence, ""))
    ELSE result

\* a variant that slices to the first closing brace instead of the last
find_json_first_close(result) ==
    LET start_idx == Find("{", result)
        end_idx == Find("}", result)
    IN  IF start_idx # 0 /\ end_idx >= start_idx THEN SubSeq(result, start_idx, end_idx)
        ELSE result

\* the "find JSON in response" step; positions are 1-based, so the slice
\* result[start_idx:end_idx] with end_idx = rfind + 1 is SubSeq(start, rfind)
find_json(result) ==
    LET start_idx == Find("{", result)
        end_idx == RFind("}", result)
    IN  IF start_idx # 0 /\ end_idx >= start_idx THEN SubSeq(result, start_idx, end_idx)
        ELSE result

\* json.loads as a recogniser: the position after the JSON value that starts
\* at i, 0 when there is none
RECURSIVE JsonStringEnd(_, _)
JsonStringEnd(text, i) ==
    IF i > Len(text) THEN 0
    ELSE IF Ch(text, i) = "\"" THEN i + 1
    ELSE IF Ch(text, i) \in {"\n", "\t", "\r"} THEN 0
    ELSE IF Ch(text, i) = "\\" THEN JsonStringEnd(text, i + 2)
    ELSE JsonStringEnd(text, i + 1)

JsonNumberEnd(text, i) ==
    LET j == SkipDigits(text, i)
    IN  IF j = i THEN 0
        ELSE IF j <= Len(text) /\ Ch(text, j) = "." THEN
                 (IF SkipDigits(text, j + 1) = j + 1 THEN 0 ELSE SkipDigits(text, j + 1))
        ELSE j

RECURSIVE JsonValueEnd(_, _)
RECURSIVE JsonMembersEnd(_, _)
RECURSIVE JsonElementsEnd(_, _)

\* after an opening brace or a comma: key, colon, value, then comma or closing brace
JsonMembersEnd(text, i) ==
    LET k == SkipSpaces(text, i)
    IN  IF k > Len(text) \/ Ch(text, k) # "\"" THEN 0
        ELSE LET e == JsonStringEnd(text, k + 1)
                 c == IF e = 0 THEN 0 ELSE SkipSpaces(text, e)
             IN  IF c = 0 \/ c > Len(text) \/ Ch(text, c) # ":" THEN 0
                 ELSE LET v == JsonValueEnd(text, SkipSpaces(text, c + 1))
                          n == IF v = 0 THEN 0 ELSE SkipSpaces(text, v)
                      IN  IF n = 0 \/ n > Len(text) THEN 0
                          ELSE IF Ch(text, n) = "}" THEN n + 1
                          ELSE IF Ch(text, n) = "," THEN JsonMembersEnd(text, n + 1)
                          ELSE 0

\* after an opening bracket or a comma: value, then comma or closing bracket
JsonElementsEnd(text, i) ==
    LET v == JsonValueEnd(text, SkipSpaces(text, i))
        n == IF v = 0 THEN 0 ELSE SkipSpaces(text, v)
    IN  IF n = 0 \/ n > Len(text) THEN 0
        ELSE IF Ch(text, n) = "]" THEN n + 1
        ELSE IF Ch(text, n) = "," THEN JsonElementsEnd(text, n + 1)
        ELSE 0

JsonValueEnd(text, i) ==
    IF i > Len(text) THEN 0
    ELSE IF Ch(text, i) = "{" THEN
        (IF SkipSpaces(text, i + 1) <= Len(text) /\ Ch(text, SkipSpaces(text, i + 1)) = "}"
         THEN SkipSpaces(text, i + 1) + 1
         ELSE JsonMembersEnd(text, i + 1))
    ELSE IF Ch(text, i) = "[" THEN
        (IF SkipSpaces(text, i + 1) <= Len(text) /\ Ch(text, SkipSpaces(text, i + 1)) = "]"
         THEN SkipSpaces(text, i + 1) + 1
         ELSE JsonElementsEnd(text, i + 1))
    ELSE IF Ch(text, i) = "\"" THEN JsonStringEnd(text, i + 1)
    ELSE IF Ch(text, i) = "-" THEN JsonNumberEnd(text, i + 1)
    ELSE IF IsDigit(Ch(text, i)) THEN JsonNumberEnd(text, i)
    ELSE IF i + 3 <= Len(text) /\ SubSeq(text, i, i + 3) \in {"true", "null"} THEN i + 4
    ELSE IF i + 4 <= Len(text) /\ SubSeq(text, i, i + 4) = "false" THEN i + 5
    ELSE 0

\* json.loads(text) does not raise
json_loads_ok(text) ==
    LET e == JsonValueEnd(text, SkipSpaces(text, 1))
    IN  e # 0 /\ SkipSpaces(text, e) = Len(text) + 1

\* the recovered text and whether json.loads accepts it
Recovered(text) == [kind |-> "recovered", text |-> text, parsed |-> json_loads_ok(text)]

\* process_receipt_with_ai: message.content.strip(), clean up, find JSON
receipt_json_recovery(content) == Recovered(find_json(clean_response(Strip(content))))

\* generate_budget_with_ai: response.content, clean up, extract JSON
budget_json_recovery(content) == Recovered(find_json(clean_response(content)))

(***************************************************************************)
(* SpecRecover: one JSON recovery of a response put together from an       *)
(* opening fence, an object, a closing fence and trailing prose.           *)
(***************************************************************************)
OpenFences == {JsonFence \o "\n", Fence \o "\n", "", "Here it is:\n" \o JsonFence \o "\n"}

JsonObjects ==
    {"{\"merchant\": \"Walmart\", \"amount\": 45.67}",
     "{\"monthly_budget\": {\"Other\": {\"recommended\": 100.00}}, \"recommendations\": []}",
     "{\"merchant\": \"Cafe\", \"items\": [\"tea\", \"" \o Fence \o "code" \o Fence \o "\"], \"ok\": true}",
     "{}"}

CloseFences == {"\n" \o Fence, ""}

TrailingProse ==
    {"", "\nHope this helps!", "\n\nNote: the total {45.67} includes tax.",
     "\nFields in } are estimates.", "\nAlternative: {\"merchant\": \"Target\"}"}

RecoverCalls ==
    {[fn |-> fn, open |-> o, object |-> j, close |-> c, prose |-> p,
      content |-> o \o j \o c \o p] :
        fn \in {"process_receipt_with_ai", "generate_budget_with_ai"},
        o \in OpenFences, j \in JsonObjects, c \in CloseFences, p \in TrailingProse}

ReceiptJsonRecoveryCall ==
    /\ call.fn = "process_receipt_with_ai"
    /\ PipelineReturn(receipt_json_recovery(call.content))

BudgetJsonRecoveryCall ==
    /\ call.fn = "generate_budget_with_ai"
    /\ PipelineReturn(budget_json_recovery(call.content))

InitRecover ==
    /\ InitState /\ pandas_strict = FALSE /\ impl = "ai_agent_orchestrator"
    /\ call \in RecoverCalls /\ ret = NoRet

NextRecover == ReceiptJsonRecoveryCall \/ BudgetJsonRecoveryCall

SpecRecover == InitRecover /\ [][NextRecover]_vars

\* a recovery has returned for a response of the shape: json fence, object,
\* closing fence, trailing prose
IsFencedRecovery ==
    /\ ret # NoRet /\ ret.kind = "recovered"
    /\ call.open = JsonFence \o "\n" /\ call.close = "\n" \o Fence

\* C21 as stated, for objects that hold no code fence themselves: for a
\* response made of a json fence, one object, a closing fence and arbitrary
\* trailing prose, the recovered text is exactly the object and parses.
C21_RecoversEmbeddedObject ==
    (IsFencedRecovery /\ ~Contains(Fence, call.object))
        => (ret.text = call.object /\ ret.parsed)

\* C21, amended: the same when the trailing prose holds no closing brace and the object
\* holds no code fence.
C21_RecoversWhenProseHasNoBrace ==
    (IsFencedRecovery /\ Find("}", call.prose) = 0 /\ ~Contains(Fence, call.object))
        => (ret.text = call.object /\ ret.parsed)

\* a nested object followed by prose without a brace is recovered
C21_Witness ==
    /\ IsFencedRecovery /\ call.prose = "\nHope this helps!"
    /\ call.object = "{\"monthly_budget\": {\"Other\": {\"recommended\": 100.00}}, \"recommendations\": []}"
    /\ ret.text = call.object /\ ret.parsed


(***************************************************************************)
(* SpecEndToEnd: a raw OCR text is structured (by the Field Extractor, or  *)
(* by process_receipt_with_ai with its fallback) and the structured        *)
(* merchant and items are then categorized by categorize_expense.          *)
(***************************************************************************)
EndToEndAnswers ==
    {AIAnswer("exception", JAbsent, JAbsent), AIAnswer("nonjson", JAbsent, JAbsent),
     AIAnswer("object", JStr("Groceries"), JNum(80)),
     AIAnswer("object", JStr("Food & Dining"), JNum(90))}

EndToEndCalls ==
    {[fn |-> "extract_receipt_data", text |-> text, llm |-> "none", answer |-> NoRecord,
      cat_answer |-> a] : text \in OcrTexts, a \in EndToEndAnswers}
    \cup {[fn |-> "process_receipt_with_ai", text |-> text, llm |-> llm, answer |-> answer,
           cat_answer |-> a] :
            text \in OcrTexts, llm \in LLMOutcomes, answer \in LLMReceipts, a \in EndToEndAnswers}

\* the structured record is handed to the reconciler
ReconcileCall ==
    /\ ret.kind = "record"
    /\ ret' = [kind |-> "categorized", rec |-> ret.rec,
               cat |-> categorize_expense(ret.rec.merchant.s, ret.rec.items.l, call.cat_answer)]
    /\ lastOp' = [op |-> "categorize_expense", ok |-> TRUE]
    /\ UNCHANGED <<impl, pandas_strict, recent_expenses, budget_data, passed, store, corrupt, call>>

InitEndToEnd ==
    /\ InitState /\ pandas_strict = FALSE /\ impl = "ai_agent_orchestrator"
    /\ call \in EndToEndCalls /\ ret = NoRet

NextEndToEnd == ExtractReceiptDataCall \/ ProcessReceiptWithAICall \/ ReconcileCall

SpecEndToEnd == InitEndToEnd /\ [][NextEndToEnd]_vars

WalmartReceipt == "WALMART\n01/15/2024\nTOTAL $45.67"

\* no AI backend: neither the structuring call nor the categorization call
\* gets an answer
NoAIBackend == call.llm \in {"none", "exception"} /\ call.cat_answer.outcome = "exception"

\* C22: with no AI backend the text WALMART / 01/15/2024 / TOTAL $45.67 is
\* structured into merchant Walmart, amount 45.67 and date 2024-01-15, and
\* the reconciler returns Groceries with confidence 0.75 by its rule-only
\* branch.
C22_WalmartEndToEnd ==
    (ret.kind = "categorized" /\ call.text = WalmartReceipt /\ NoAIBackend) =>
        /\ ret.rec.merchant = JStr("Walmart")
        /\ ret.rec.amount = JNum(4567)
        /\ ret.rec.date = JStr("2024-01-15")
        /\ ret.cat.category = "Groceries"
        /\ ret.cat.confidence = JNum(75)
        /\ ret.cat.branch = "rule_only"


\* the rule-based pass has returned
IsRuleBasedCall == call.fn = "_rule_based_categorization" /\ ret # NoRet

\* 3 times the number of keywords of category i found in the lower-cased
\* merchant plus the number found in the lower-cased joined items
WeightedHits(i) ==
    LET keywords == category_keywords(KeywordCategories[i])
        in_merchant == {k \in 1..Len(keywords) : Contains(keywords[k], Lower(call.merchant))}
        in_items == {k \in 1..Len(keywords) : Contains(keywords[k], Lower(Join(" ", call.items)))}
    IN  3 * Cardinality(in_merchant) + Cardinality(in_items)

\* C23: the rule-based pass returns a category whose weighted keyword count
\* (3 per merchant hit, 1 per items hit) is the maximum over all categories
\* when some count is nonzero, and None exactly when every count is zero.
C23_RulePassMaximumScore ==
    IsRuleBasedCall =>
        IF \A i \in 1..Len(KeywordCategories) : WeightedHits(i) = 0
        THEN ret.category = NoCategory
        ELSE \E i \in 1..Len(KeywordCategories) :
                /\ ret.category = KeywordCategories[i]
                /\ WeightedHits(i) > 0
                /\ \A j \in 1..Len(KeywordCategories) : WeightedHits(j) <= WeightedHits(i)

\* one merchant hit (3) for Groceries beats one item hit (1) for Food & Dining
C23_Witness ==
    /\ IsRuleBasedCall /\ call.merchant = "Walmart" /\ call.items = <<"Pizza Slice">>
    /\ ret.category = "Groceries"


\* the AI pass answered an object whose category is a string outside the
\* fixed set
OutOfSetAnswer ==
    /\ IsCategorization /\ ret.kind = "result"
    /\ call.answer.outcome = "object"
    /\ call.answer.category.t = "str" /\ call.answer.category.s \notin Categories

\* the category the keywords of the called class give for the merchant alone
MerchantKeywordCategory ==
    IF call.fn = "categorize_expense"
    THEN (IF rule_based_categorization(call.merchant, <<>>) = NoCategory THEN "Other"
          ELSE rule_based_categorization(call.merchant, <<>>))
    ELSE fallback_categorize(call.merchant)

\* C24: an AI category outside the fixed set is discarded, so a merchant with
\* a keyword match is never reported as Other because of it.
C24_OutOfSetAnswerNeverGivesOther ==
    (OutOfSetAnswer /\ MerchantKeywordCategory # "Other") => ret.category # "Other"


HasLetter(s) == \E i \in 1..Len(s) : IsAlpha(Ch(s, i))

\* C25 (its last sentence): the merchant of the Field Extractor's record is
\* never a line made only of digits and punctuation, such as a date line.
C25_MerchantIsNeverADateLine ==
    IsFieldExtraction => (ret.rec.merchant.t = "str" /\ HasLetter(ret.rec.merchant.s))


(***************************************************************************)
(* DataManager.delete_expense and update_expense: load, change the frame   *)
(* at a position, save the whole frame.                                    *)
(***************************************************************************)
\* what a DataManager method hands back and leaves in the data file
StoreResult(value, file, invalid_json) ==
    [value |-> value, file |-> file, invalid_json |-> invalid_json]

\* save_expenses(frame) on a data file, with the outcome of the write
save_expenses(frame, file, invalid_json, save) ==
    CASE save = "ok" -> StoreResult(TRUE, frame, FALSE)
      [] save = "open_fail" -> StoreResult(FALSE, file, invalid_json)
      [] OTHER -> StoreResult(FALSE, <<>>, TRUE)

\* expenses_df.drop(expenses_df.index[index]): the row labels are unique, so
\* the row at that position goes and the others keep their order
DropRow(rows, index) ==
    [k \in 1..(Len(rows) - 1) |-> IF k <= index THEN rows[k] ELSE rows[k + 1]]

\* a variant that drops the row at the position counted in the data file
\* instead of in the loaded frame
delete_expense_file_position(file, invalid_json, strict, index, save) ==
    LET expenses_df == load_expenses(file, invalid_json, strict)
    IN  IF 0 <= index /\ index < Len(expenses_df)
        THEN save_expenses(DropRow(DataFrame(file), index), file, invalid_json, save)
        ELSE StoreResult(FALSE, file, invalid_json)

delete_expense(file, invalid_json, strict, index, save) ==
    LET expenses_df == load_expenses(file, invalid_json, strict)
    IN  IF 0 <= index /\ index < Len(expenses_df)
        THEN save_expenses(DropRow(expenses_df, index), file, invalid_json, save)
        ELSE StoreResult(FALSE, file, invalid_json)

\* the columns of the loaded frame: the keys some row has, and the columns
\* load_expenses creates
FrameHasColumn(rows, key) ==
    key \in Columns /\ (HasColumn(rows, key) \/ key \in {"ai_tags", "is_recurring", "timestamp"})

\* the loop over updated_data.items(): columns.get_loc(key) raises KeyError
\* for a key that is no column, after the earlier keys were assigned
RECURSIVE ApplyUpdates(_, _, _)
ApplyUpdates(rows, index, updated_data) ==
    IF updated_data = <<>> THEN [raised |-> FALSE, rows |-> rows]
    ELSE IF ~FrameHasColumn(rows, Head(updated_data).key) THEN [raised |-> TRUE, rows |-> rows]
    ELSE ApplyUpdates([rows EXCEPT ![index + 1][Head(updated_data).key] = Head(updated_data).value],
                      index, Tail(updated_data))

update_expense(file, invalid_json, strict, index, updated_data, save) ==
    LET expenses_df == load_expenses(file, invalid_json, strict)
    IN  IF 0 <= index /\ index < Len(expenses_df)
        THEN LET updated == ApplyUpdates(expenses_df, index, updated_data)
             IN  IF updated.raised THEN StoreResult(FALSE, file, invalid_json)
                 ELSE save_expenses(updated.rows, file, invalid_json, save)
        ELSE StoreResult(FALSE, file, invalid_json)

(***************************************************************************)
(* SpecStore: one delete_expense or update_expense on a data file of up to *)
(* MaxStore records.                                                       *)
(***************************************************************************)
StoredRecords ==
    { Expense(1, JStr("Walmart"), JNum(4567), JStr("2024-01-15"), JList(<<"MILK">>),
              JStr("Groceries")),
      Expense(2, JStr("Starbucks"), JNum(1250), JStr("02/20/2024"), JList(<<"LATTE">>),
              JStr("Food & Dining")),
      [Expense(3, JStr("Shell"), JNum(3000), JStr("2024-01-15"), JList(<<>>),
               JStr("Transportation & Gas")) EXCEPT !.timestamp = JStr("2024-01-16T08:00:00")],
      Expense(4, JStr("Unknown"), JNum(0), JStr("Unknown"), JList(<<>>), JStr("Other")) }

\* the data files: up to MaxStore different records in any order
StoredFiles ==
    UNION {{f \in [1..n -> StoredRecords] : \A i, j \in 1..n : i # j => f[i] # f[j]} :
             n \in 0..MaxStore}

Update(key, value) == [key |-> key, value |-> value]

UpdateDicts ==
    { <<Update("amount", JNum(999))>>, <<Update("notes", JStr("x"))>>,
      <<Update("category", JStr("Other")), Update("notes", JStr("x"))>> }

StoreCalls ==
    {[fn |-> "delete_expense", index |-> i, updated_data |-> <<>>, save |-> s] :
        i \in (-1)..MaxStore, s \in SaveOutcomes}
    \cup {[fn |-> "update_expense", index |-> i, updated_data |-> u, save |-> s] :
            i \in (-1)..MaxStore, u \in UpdateDicts, s \in SaveOutcomes}

\* the call's result, with the data file and the loaded frame as they were
\* before it
StoreReturn(result) ==
    /\ ret = NoRet
    /\ ret' = [kind |-> "bool", value |-> result.value, file_before |-> store,
               invalid_before |-> corrupt,
               loaded_before |-> load_expenses(store, corrupt, pandas_strict)]
    /\ store' = result.file
    /\ corrupt' = result.invalid_json
    /\ lastOp' = [op |-> call.fn, ok |-> result.value]
    /\ UNCHANGED <<impl, pandas_strict, recent_expenses, budget_data, passed, call>>

DeleteExpenseCall ==
    /\ call.fn = "delete_expense"
    /\ StoreReturn(delete_expense(store, corrupt, pandas_strict, call.index, call.save))

UpdateExpenseCall ==
    /\ call.fn = "update_expense"
    /\ StoreReturn(update_expense(store, corrupt, pandas_strict, call.index,
                                  call.updated_data, call.save))

InitStore ==
    /\ impl = "agent_orchestrator" /\ pandas_strict \in BOOLEAN
    /\ recent_expenses = <<>> /\ budget_data = EmptyBudget /\ passed = <<>>
    /\ store \in StoredFiles /\ corrupt = FALSE
    /\ lastOp = NoOp /\ call \in StoreCalls /\ ret = NoRet

NextStore == DeleteExpenseCall \/ UpdateExpenseCall

SpecStore == InitStore /\ [][NextStore]_vars

IsStoreReturn == ret # NoRet /\ ret.kind = "bool"

IndexInRange == 0 <= call.index /\ call.index < Len(ret.loaded_before)

StoreUnchanged == store = ret.file_before /\ corrupt = ret.invalid_before

\* some field of updated_data is no column of the loaded frame
UnknownField ==
    \E k \in 1..Len(call.updated_data) :
        ~FrameHasColumn(ret.loaded_before, call.updated_data[k].key)

Adders == {1, 2}

NewExpense(p) ==
    IF p = 1
    THEN Expense(11, JStr("Target"), JNum(2000), JStr("2024-03-01"), JList(<<>>), JStr("Groceries"))
    ELSE Expense(12, JStr("Costco"), JNum(8000), JStr("2024-03-02"), JList(<<>>), JStr("Groceries"))

\* lines 64-67: expenses_df = self.load_expenses(), then the timestamp
AddExpenseLoad(p) ==
    /\ call[p].pc = "load"
    /\ call' = [call EXCEPT ![p] = [pc |-> "save",
                                    expenses_df |-> load_expenses(store, corrupt, pandas_strict),
                                    expense_data |-> Stamp(call[p].expense_data)]]
    /\ UNCHANGED <<impl, pandas_strict, recent_expenses, budget_data, passed, store, corrupt,
                   lastOp, ret>>

\* lines 70-78: the new row is put after the rows loaded earlier and the
\* whole frame is written
AddExpenseSave(p) ==
    /\ call[p].pc = "save"
    /\ \E save \in SaveOutcomes :
          LET updated_df == IF call[p].expenses_df = <<>> THEN <<call[p].expense_data>>
                            ELSE DataFrame(Append(call[p].expenses_df, call[p].expense_data))
              result == save_expenses(updated_df, store, corrupt, save)
          IN  /\ store' = result.file
              /\ corrupt' = result.invalid_json
              /\ ret' = [ret EXCEPT ![p] = [kind |-> "bool", value |-> result.value]]
              /\ lastOp' = [op |-> "add_expense", ok |-> result.value]
    /\ call' = [call EXCEPT ![p].pc = "done"]
    /\ UNCHANGED <<impl, pandas_strict, recent_expenses, budget_data, passed>>

InitConcurrentAdd ==
    /\ impl = "agent_orchestrator" /\ pandas_strict = FALSE
    /\ recent_expenses = <<>> /\ budget_data = EmptyBudget /\ passed = <<>>
    /\ store \in StoredFiles /\ corrupt = FALSE /\ lastOp = NoOp
    /\ call = [p \in Adders |-> [pc |-> "load", expenses_df |-> <<>>, expense_data |-> NewExpense(p)]]
    /\ ret = [p \in Adders |-> NoRet]

NextConcurrentAdd == \E p \in Adders : AddExpenseLoad(p) \/ AddExpenseSave(p)

SpecConcurrentAdd == InitConcurrentAdd /\ [][NextConcurrentAdd]_vars

InStore(id) == \E i \in 1..Len(store) : store[i].id = id

\* C27: when two interleaved add_expense calls have both returned True, both
\* new records are in the data file.
C27_NoAcknowledgedAddLost ==
    (\A p \in Adders : call[p].pc = "done" /\ ret[p].kind = "bool" /\ ret[p].value = TRUE)
        => \A p \in Adders : InStore(NewExpense(p).id)


(***************************************************************************)
(* SpecConcurrentMemory: two update_agent_memory calls on the shared       *)
(* orchestrator, interleaved statement by statement: append, length check, *)
(* slice, reassignment. call[p] holds the position of call p and the list  *)
(* its slice produced.                                                     *)
(***************************************************************************)
Updaters == {1, 2}

NewMemoryRecord(p) == MemoryRecord(100 + p)

MemoryStep(p, pc, sliced) ==
    /\ call' = [call EXCEPT ![p] = [pc |-> pc, sliced |-> sliced]]
    /\ UNCHANGED <<impl, pandas_strict, budget_data, passed, store, corrupt, lastOp, ret>>

\* self.agent_memory["recent_expenses"].append(expense_data)
MemoryAppend(p) ==
    /\ call[p].pc = "append"
    /\ recent_expenses' = Append(recent_expenses, NewMemoryRecord(p))
    /\ MemoryStep(p, "check", <<>>)

\* if len(self.agent_memory["recent_expenses"]) > 50
MemoryCheck(p) ==
    /\ call[p].pc = "check"
    /\ UNCHANGED recent_expenses
    /\ MemoryStep(p, IF Len(recent_expenses) > MemoryLimit THEN "slice" ELSE "done", <<>>)

\* the right-hand side self.agent_memory["recent_expenses"][-50:], a new list
MemorySlice(p) ==
    /\ call[p].pc = "slice"
    /\ UNCHANGED recent_expenses
    /\ MemoryStep(p, "assign", LastN(recent_expenses, MemoryLimit))

\* self.agent_memory["recent_expenses"] = <the new list>
MemoryAssign(p) ==
    /\ call[p].pc = "assign"
    /\ recent_expenses' = call[p].sliced
    /\ MemoryStep(p, "done", <<>>)

\* the memory holds up to 50 records when the two calls start
InitConcurrentMemory ==
    /\ impl \in Impls /\ pandas_strict = FALSE
    /\ \E n \in 0..MemoryLimit : recent_expenses = [k \in 1..n |-> MemoryRecord(k)]
    /\ budget_data = EmptyBudget /\ passed = <<>> /\ store = <<>> /\ corrupt = FALSE
    /\ lastOp = NoOp
    /\ call = [p \in Updaters |-> [pc |-> "append", sliced |-> <<>>]]
    /\ ret = NoRet

NextConcurrentMemory ==
    \E p \in Updaters : MemoryAppend(p) \/ MemoryCheck(p) \/ MemorySlice(p) \/ MemoryAssign(p)

SpecConcurrentMemory == InitConcurrentMemory /\ [][NextConcurrentMemory]_vars

InMemory(rec) == \E i \in 1..Len(recent_expenses) : recent_expenses[i] = rec

\* C28: after two interleaved update_agent_memory calls have returned,
\* recent_expenses holds both appended records and at most 50 entries.
C28_BothAppendsKept ==
    (\A p \in Updaters : call[p].pc = "done") =>
        /\ \A p \in Updaters : InMemory(NewMemoryRecord(p))
        /\ Len(recent_expenses) <= MemoryLimit


(***************************************************************************)
(* SpecReceiptEdit: up to MaxRuns runs of the receipt tab in which Save    *)
(* Expense is pressed, the user having corrected the widgets or not.       *)
(***************************************************************************)
MaxRuns == 2

SaveEditedExpense ==
    /\ Len(passed) < MaxRuns
    /\ \E ocr_result \in OcrResults, llm \in ExtractLLMOutcomes, answer \in LLMReceipts,
          save \in SaveOutcomes, edit \in WidgetEdits :
            SaveExpenseRun(ocr_result, llm, answer, save, edit)

NextReceiptEdit == SaveEditedExpense

SpecReceiptEdit == Init /\ [][NextReceiptEdit]_vars

\* a run with Save Expense pressed has ended
IsSaveRun == ret # NoRet /\ ret.kind = "run" /\ call.pressed

\* the record the last successful add_expense put in the data file
SavedRecord(id) == CHOOSE r \in Range(store) : r.id = id

\* C29: a pressed Save Expense persists a record only when the extraction of
\* the same run succeeded, the persisted record carries the values shown in
\* the edit widgets, and when OCR or extraction failed the run persists
\* nothing, leaves the memory alone and raises no error.
C29_SavePersistsWidgetValues ==
    IsSaveRun =>
        /\ (lastOp.op = "add_expense" /\ lastOp.ok) => ret.bound
        /\ (lastOp.op = "add_expense" /\ lastOp.ok /\ ret.widgets.shown /\ InStore(ret.rec.id)) =>
              /\ SavedRecord(ret.rec.id).amount = ret.widgets.amount
              /\ SavedRecord(ret.rec.id).merchant = ret.widgets.merchant
              /\ SavedRecord(ret.rec.id).category = ret.widgets.category
        /\ ~ret.bound => ret.end # "NameError"


(***************************************************************************)
(* BudgetAdvisorAgent.generate_budget_alerts. Amounts are in hundredths,   *)
(* month_progress in hundredths of the month; spent_percentage is compared *)
(* after multiplying out the division by budget_amount.                    *)
(***************************************************************************)
NoAlert == [type |-> "none", category |-> ""]

\* the if / elif / elif of one category that is in the budget
AlertFor(category, spent, budget_amount, month_progress) ==
    LET \* (spent / budget_amount) * 100 if budget_amount > 0 else 0, times budget_amount
        scale == IF budget_amount > 0 THEN budget_amount ELSE 1
        spent_percentage == IF budget_amount > 0 THEN spent * 100 ELSE 0
        expected_spent_percentage == month_progress
    IN  IF spent_percentage > 90 * scale THEN [type |-> "critical", category |-> category]
        ELSE IF spent_percentage > (expected_spent_percentage + 20) * scale
        THEN [type |-> "warning", category |-> category]
        ELSE IF spent_percentage < (expected_spent_percentage - 20) * scale
        THEN [type |-> "positive", category |-> category]
        ELSE NoAlert

\* the loop over current_month_spending.items(); budget_allocations maps the
\* budgeted categories to their recommended_amount
RECURSIVE generate_budget_alerts(_, _, _)
generate_budget_alerts(current_month_spending, budget_allocations, month_progress) ==
    IF current_month_spending = <<>> THEN <<>>
    ELSE LET item == Head(current_month_spending)
             rest == generate_budget_alerts(Tail(current_month_spending), budget_allocations,
                                            month_progress)
         IN  IF item.category \notin DOMAIN budget_allocations THEN rest
             ELSE LET alert == AlertFor(item.category, item.spent,
                                        budget_allocations[item.category], month_progress)
                  IN  IF alert = NoAlert THEN rest ELSE <<alert>> \o rest

(***************************************************************************)
(* SpecAlerts: generate_budget_alerts applied once.                        *)
(***************************************************************************)
AlertCategories == {"Groceries", "Food & Dining"}
SpentAmounts == {0, 2000, 9500, 50000}
RecommendedAmounts == {0, 10000}
MonthProgresses == {0, 50, 100}

\* current_month: the categories spent in, each once, in dict order
CurrentMonthSpendings ==
    UNION {{[i \in 1..n |-> [category |-> cs[i], spent |-> sp[i]]] :
              cs \in {f \in [1..n -> AlertCategories] : \A i, j \in 1..n : i # j => f[i] # f[j]},
              sp \in [1..n -> SpentAmounts]} :
             n \in 0..Cardinality(AlertCategories)}

BudgetAllocations ==
    UNION {[cats -> RecommendedAmounts] : cats \in SUBSET AlertCategories}

AlertCalls ==
    {[fn |-> "generate_budget_alerts", current_month |-> s, monthly_budget |-> b,
      month_progress |-> m] :
        s \in CurrentMonthSpendings, b \in BudgetAllocations, m \in MonthProgresses}

GenerateBudgetAlertsCall ==
    /\ call.fn = "generate_budget_alerts"
    /\ ret = NoRet
    /\ ret' = [kind |-> "alerts",
               alerts |-> generate_budget_alerts(call.current_month, call.monthly_budget,
                                                 call.month_progress)]
    /\ lastOp' = [op |-> "generate_budget_alerts", ok |-> TRUE]
    /\ UNCHANGED <<impl, pandas_strict, recent_expenses, budget_data, passed, store, corrupt, call>>

InitAlerts ==
    /\ InitState /\ impl = "ai_agent_orchestrator" /\ pandas_strict = FALSE
    /\ call \in AlertCalls /\ ret = NoRet

NextAlerts == GenerateBudgetAlertsCall

SpecAlerts == InitAlerts /\ [][NextAlerts]_vars

IsAlerts == ret # NoRet /\ ret.kind = "alerts"

SpentIn(category) ==
    LET i == CHOOSE k \in 1..Len(call.current_month) : call.current_month[k].category = category
    IN  call.current_month[i].spent

IsSpentIn(category) ==
    \E k \in 1..Len(call.current_month) : call.current_month[k].category = category

\* C30: at most one alert per category, only for categories in both the
\* spending and the budget, and a positive (under budget) alert only when the
\* amount spent is below the recommended amount, also when that amount is 0
\* (stated here in the weaker form "not above the recommended amount").
C30_AlertsPerCategory ==
    IsAlerts =>
        /\ \A i, j \in 1..Len(ret.alerts) :
              ret.alerts[i].category = ret.alerts[j].category => i = j
        /\ \A i \in 1..Len(ret.alerts) :
              /\ IsSpentIn(ret.alerts[i].category)
              /\ ret.alerts[i].category \in DOMAIN call.monthly_budget
              /\ ret.alerts[i].type \in {"critical", "warning", "positive"}
              /\ ret.alerts[i].type = "positive" =>
                    SpentIn(ret.alerts[i].category) <= call.monthly_budget[ret.alerts[i].category]

====
